---- MODULE Spec2Model ----
(***************************************************************************)
(* Marble game (js/game.js, js/terrain.js): the player's throw state       *)
(* machine driven by keyboard, touch, timers and animation frames; the     *)
(* rejection-sampling placement of rocks and hills; the construction of    *)
(* the physics ground and of the contact materials; and the synthesis of   *)
(* terrain elevations.  Lengths are in millimetres, times in milliseconds. *)
(***************************************************************************)
EXTENDS Integers, Sequences, FiniteSets, TLC

VARIABLES
    \* ---- Player (js/game.js) ----
    now,               \* performance.now()
    remainingMarbles,  \* Player.remainingMarbles
    isCharging,        \* Player.isCharging
    chargeStartTime,   \* Player.chargeStartTime
    throwPower,        \* Player.throwPower, in 1/100
    activeMarble,      \* Player.activeMarble (NullMarble when null)
    marbleBodies,      \* number of marble bodies in the physics world
    timers,            \* due times of the pending throw-button timeouts
    throwCount,        \* history: number of runs of throwMarble
    lastUpdateAt,      \* history: time of the last Player.update, -1 if none
    lastRemoval,       \* history: path that removed the last marble
    updateThrew,       \* history: the last Player.update ended in its catch
    totalScore,        \* Player.totalScore (0 while undefined)
    \* ---- Terrain.generateObstaclePositions (js/terrain.js) ----
    rockPositions,     \* Terrain.rockPositions
    hillPositions,     \* Terrain.hillPositions
    placePc,           \* "rocks", "hills" or "done": the loop being run
    loopState,         \* "draw": in the do-while; "found" / "gaveup": left it
    attempt,           \* the attempt counter of the running do-while
    cand,              \* the (x, z) with which the last do-while was left
    exhausted,         \* history: some do-while gave up so far
    \* ---- Terrain.createTerrain and Player.createMarbleMaterials ----
    terrainSize,       \* Terrain.size, in mm
    resolution,        \* Terrain.resolution
    buildPc,           \* the step of the construction to run next
    world,             \* the CANNON world: bodies, contact materials, and
                       \* the id the next new CANNON.Material gets
    mesh,              \* grid of the visual mesh (NoGrid before it is built)
    heightfield,       \* grid of the collision heightfield (NoGrid if none)
    terrainBody,       \* material id of Terrain.body, 0 while undefined
    marbleMaterial,    \* material id of Player.marbleMaterial, 0 before
    heightfieldThrew,  \* history: new CANNON.Heightfield threw
    escaped,           \* history: an exception left createPhysicsGround
    rockMeshes,        \* the rock meshes createVisibleRocks added to the scene
    \* ---- height synthesis ----
    synth,             \* "visual": the vertex loop of generateTerrainGeometry,
                       \* "physics": the heights loop of createPhysicsGround
    samples,           \* the grid indices <<i, j>> followed, in loop order
    sampleIdx,         \* position in samples of the sample being computed
    synthPc,           \* the stage of the loop body to run next
    height,            \* the local variable height of the loop body
    draws,             \* what this sample took from the heightmap image and
                       \* from Math.random()
    heightData,        \* the elevations stored so far
    drawsData,         \* history: the draws of the stored samples
    queried,           \* the last getHeightAt call and what it returned
    \* ---- game loop ----
    loopPc,            \* "raf": waiting for the next animation frame, then
                       \* "step", "player", "render" inside gameLoop
    lastFrameTime,     \* Game.lastFrameTime, ms
    deltaTime,         \* the argument of Game.update, in 1/240000 s
    stepCall,          \* the arguments of the last world.step call and the
                       \* number of sub-steps it ran
    accumulator,       \* world.accumulator, in 1/240000 s
    marbleBody,        \* position (mm) and velocity (mm/s) of the marble body
    surface,           \* what the ray cast of getHeightAt hits inside the
                       \* terrain square: level + slope, in um
    post,              \* history: what the terrain interaction of the last
                       \* Player.update did
    frameLog,          \* history: the calls made so far in this frame
    pending,           \* invocations of gameLoop that are due: the call by
                       \* Game.init or a requested animation frame
    thrown,            \* history: the call of this frame that threw
    \* ---- start-up ----
    startPc,           \* where startGame / Game.init stands
    page,              \* the page: which globals exist, WebGL support, and
                       \* which step of Game.init throws
    errorElements,     \* error elements appended to document.body
    gameObj,           \* the Game under construction: exists, has terrain,
                       \* has player
    mobileControls,    \* the touch buttons are in the document
    \* ---- elevation service ----
    elevPc,            \* where fetchElevationData stands
    image,             \* what happens to the heightmap image, the sample
                       \* followed and the red value of its pixel
    elevData,          \* the array in hand: its length, the followed sample
                       \* in 1e-4, and whether it is the synthetic one
    fetchResult,       \* the promise returned by fetchElevationData
    \* ---- touch screen ----
    touch,             \* the finger on the THROW button: held down, whether
                       \* its touchstart began a charge, throwCount then
    \* ---- condor flight ----
    condor,            \* the condor group: position in 1e-4, rotation.y and
                       \* rotation.x in thousandths of a radian
    flightState,       \* FlightControls.state: speed, verticalSpeed in 1e-4
    keys,              \* the keys of FlightControls.keys that are down
    terrainMap,        \* which height data Terrain.heightData holds
    flown,             \* history: the updates made, whether the last one
                       \* applied the floor, the terrain height it read and
                       \* the elevation it reported
    camera,            \* CameraController: whether it exists, state.freeCamera,
                       \* state.enableMouseControl, controls.enabled,
                       \* isMouseDown, the help element
    buttonLabel        \* textContent of the camera toggle button

playerVars == <<now, remainingMarbles, isCharging, chargeStartTime, throwPower,
                activeMarble, marbleBodies, timers, throwCount, lastUpdateAt,
                lastRemoval, updateThrew, totalScore>>

placeVars == <<rockPositions, hillPositions, placePc, loopState, attempt,
               cand, exhausted>>

buildVars == <<terrainSize, resolution, buildPc, world, mesh, heightfield,
               terrainBody, marbleMaterial, heightfieldThrew, escaped,
               rockMeshes>>

synthVars == <<synth, samples, sampleIdx, synthPc, height, draws, heightData,
               drawsData, queried>>

loopVars == <<loopPc, lastFrameTime, deltaTime, stepCall, accumulator,
              marbleBody, surface, post, frameLog, pending, thrown,
              startPc, page,
              errorElements, gameObj, mobileControls>>

elevVars == <<elevPc, image, elevData, fetchResult>>

condorVars == <<condor, flightState, keys, terrainMap, flown, camera,
                buttonLabel>>

vars == <<playerVars, placeVars, buildVars, synthVars, loopVars, elevVars,
          touch, condorVars>>

-----------------------------------------------------------------------------
(* Bounds of the model *)
TickMs == 1000        \* granularity of the clock
MaxTime == 17000      \* the clock stops here
largeRockCount == 2   \* rocks to place (8 in the constructor)
hillCount == 2        \* hills to place (6 in the constructor)

-----------------------------------------------------------------------------
(* Player: constants of the constructor *)
InitialMarbles == 5
minThrowPower == 80
maxThrowPower == 850
maxChargeTime == 2000
ThrowDelayMs == 1000
CheckIntervalMs == 100
MinRestMs == 2000
MaxThrowMs == 15000

\* A number that is NaN compares false with everything.
NaN == -999999
Lt(a, b) == a # NaN /\ b # NaN /\ a < b
Gt(a, b) == a # NaN /\ b # NaN /\ a > b

\* userCollisions is body.userData.obstacleCollisions, which the collide
\* handler counts; obstacleCollisions is the copy Player.update keeps
NullMarble == [active |-> FALSE, createdAt |-> 0, lastCheckTime |-> 0,
               almostStopped |-> FALSE, userCollisions |-> 0,
               obstacleCollisions |-> 0]

\* What world.step can leave in the marble body: height y, distance from the
\* origin and horizontal distance from the centre in mm, speed in mm/s, and
\* the obstacle collisions its collide handler counted during the step.
BodyStates ==
    { [y |-> 50,   dist |-> 100,  horiz |-> 86,   speed |-> 50,   hits |-> 0],
      [y |-> 50,   dist |-> 100,  horiz |-> 86,   speed |-> 150,  hits |-> 0],
      [y |-> 300,  dist |-> 2000, horiz |-> 1977, speed |-> 3000, hits |-> 0],
      [y |-> -600, dist |-> 1000, horiz |-> 800,  speed |-> 1000, hits |-> 0],
      [y |-> 50,   dist |-> 6000, horiz |-> 5999, speed |-> 1000, hits |-> 0],
      [y |-> NaN,  dist |-> NaN,  horiz |-> NaN,  speed |-> NaN,  hits |-> 0] }

Min(a, b) == IF a < b THEN a ELSE b

\* Player.startCharging
startCharging ==
    /\ isCharging' = TRUE
    /\ throwPower' = minThrowPower
    /\ chargeStartTime' = now

\* Player.createActiveMarble: the record it returns
createActiveMarble ==
    [active |-> TRUE, createdAt |-> now, lastCheckTime |-> now,
     almostStopped |-> FALSE, userCollisions |-> 0, obstacleCollisions |-> 0]

throwMarble_KeepsCharging ==
    /\ isCharging' = isCharging
    /\ activeMarble' = createActiveMarble
    /\ marbleBodies' = marbleBodies + 1
    /\ remainingMarbles' = remainingMarbles - 1
    /\ throwCount' = throwCount + 1

\* Player.throwMarble
throwMarble ==
    /\ isCharging' = FALSE
    /\ activeMarble' = createActiveMarble
    /\ marbleBodies' = marbleBodies + 1
    /\ remainingMarbles' = remainingMarbles - 1
    /\ throwCount' = throwCount + 1

CanStartCharge_NoCount ==
    ~isCharging /\ ~activeMarble.active

\* Guard shared by the space keydown handler and the throw button
CanStartCharge ==
    ~isCharging /\ ~activeMarble.active /\ remainingMarbles > 0

\* keydown ' ' listener of Player.setupControls
KeyDownSpace ==
    /\ IF CanStartCharge
         THEN startCharging
         ELSE UNCHANGED <<isCharging, throwPower, chargeStartTime>>
    /\ UNCHANGED <<now, remainingMarbles, activeMarble, marbleBodies, timers,
                   throwCount, lastUpdateAt, lastRemoval, updateThrew, totalScore>>
    /\ UNCHANGED <<placeVars, buildVars, synthVars, loopVars, elevVars, touch,
                   condorVars>>

\* keyup ' ' listener of Player.setupControls
KeyUpSpace ==
    /\ IF isCharging
         THEN throwMarble
         ELSE UNCHANGED <<isCharging, activeMarble, marbleBodies,
                          remainingMarbles, throwCount>>
    /\ UNCHANGED <<now, chargeStartTime, throwPower, timers, lastUpdateAt,
                   lastRemoval, updateThrew, totalScore>>
    /\ UNCHANGED <<placeVars, buildVars, synthVars, loopVars, elevVars, touch,
                   condorVars>>

\* the callback of the THROW button of setupMobileControls
ThrowButtonCallback ==
    /\ IF CanStartCharge
         THEN /\ startCharging
              /\ timers' = Append(timers, now + ThrowDelayMs)
         ELSE UNCHANGED <<isCharging, throwPower, chargeStartTime, timers>>
    /\ UNCHANGED <<now, remainingMarbles, activeMarble, marbleBodies,
                   throwCount, lastUpdateAt, lastRemoval, updateThrew, totalScore>>
    /\ UNCHANGED <<placeVars, buildVars, synthVars, loopVars, elevVars,
                   condorVars>>

\* touchstart on the THROW button (createMobileButton), the finger not followed
TouchThrowButton == ThrowButtonCallback /\ UNCHANGED touch

RemoveAt(s, i) == SubSeq(s, 1, i - 1) \o SubSeq(s, i + 1, Len(s))

\* the setTimeout callback of the THROW button
ThrowTimerFires ==
    \E i \in 1..Len(timers) :
        /\ timers[i] <= now
        /\ timers' = RemoveAt(timers, i)
        /\ IF isCharging
             THEN throwMarble
             ELSE UNCHANGED <<isCharging, activeMarble, marbleBodies,
                              remainingMarbles, throwCount>>
        /\ UNCHANGED <<now, chargeStartTime, throwPower, lastUpdateAt,
                       lastRemoval, updateThrew, totalScore>>
        /\ UNCHANGED <<placeVars, buildVars, synthVars, loopVars, elevVars, touch,
                   condorVars>>

\* Player.update, first removal test: below the terrain or far away
FellOut(b) == Lt(b.y, -500) \/ Gt(b.dist, 5000)

\* Player.update, the 100 ms check: the almostStopped flag after it
AlmostStoppedAfter(m, b) ==
    IF now - m.lastCheckTime > CheckIntervalMs
      THEN m.almostStopped \/ (Lt(b.speed, 200) /\ Lt(b.y, 100))
      ELSE m.almostStopped

LastCheckAfter(m) ==
    IF now - m.lastCheckTime > CheckIntervalMs THEN now ELSE m.lastCheckTime

\* Player.update, the 100 ms check: activeMarble.obstacleCollisions after it,
\* user being body.userData.obstacleCollisions (hasCollidedWithObstacle is
\* set with the first collision and never cleared)
CollisionsAfter(m, user) ==
    IF now - m.lastCheckTime > CheckIntervalMs /\ user > 0
      THEN user ELSE m.obstacleCollisions

\* Player.update, the points for the distance to the target
RingPoints(horiz) ==
    IF Lt(horiz, 150) THEN 30
    ELSE IF Lt(horiz, 300) THEN 20
    ELSE IF Lt(horiz, 450) THEN 10
    ELSE 0

\* points += this.activeMarble.obstacleCollisions * 5
ObstacleBonus(collisions) == collisions * 5

\* Player.update, second removal test: at rest for a while ...
\* velocity.lengthSquared() < 0.01 is speed < 0.1.
Stopped(m, b, almost) ==
    almost /\ Lt(b.speed, 100) /\ now - m.createdAt > MinRestMs

StoppedOrTimedOut_NoTimeout(m, b, almost) ==
    Stopped(m, b, almost)

\* ... or timed out
StoppedOrTimedOut(m, b, almost) ==
    \/ Stopped(m, b, almost)
    \/ now - m.createdAt > MaxThrowMs

ChargedPower_Unclamped ==
    LET chargeTime == now - chargeStartTime
        ratio1000 == (chargeTime * 1000) \div maxChargeTime
    IN  minThrowPower + ((maxThrowPower - minThrowPower) * ratio1000) \div 1000

\* Player.update, the power computed while charging
ChargedPower ==
    LET chargeTime == now - chargeStartTime
        ratio1000 == Min((chargeTime * 1000) \div maxChargeTime, 1000)
    IN  minThrowPower + ((maxThrowPower - minThrowPower) * ratio1000) \div 1000

\* Player.update with the body state b left by world.step
PlayerUpdate(b) ==
    /\ lastUpdateAt' = now
    /\ IF activeMarble.active
         THEN LET almost == AlmostStoppedAfter(activeMarble, b)
                  user == activeMarble.userCollisions + b.hits
                  counted == CollisionsAfter(activeMarble, user)
                  fell == FellOut(b)
                  done == ~fell /\ StoppedOrTimedOut(activeMarble, b, almost)
              IN  IF fell \/ done
                    THEN \* removeActiveMarble, then the read of
                         \* this.activeMarble.body throws into the catch
                         /\ activeMarble' = NullMarble
                         /\ marbleBodies' = marbleBodies - 1
                         /\ lastRemoval' =
                              IF fell THEN "out"
                              ELSE IF Stopped(activeMarble, b, almost)
                                     THEN "stopped" ELSE "timeout"
                         /\ totalScore' =
                              IF done
                                THEN totalScore + RingPoints(b.horiz)
                                                + ObstacleBonus(counted)
                                ELSE totalScore
                         /\ updateThrew' = TRUE
                         /\ UNCHANGED throwPower
                    ELSE /\ activeMarble' =
                              [activeMarble EXCEPT
                                  !.almostStopped = almost,
                                  !.userCollisions = user,
                                  !.obstacleCollisions = counted,
                                  !.lastCheckTime = LastCheckAfter(activeMarble)]
                         /\ updateThrew' = FALSE
                         /\ throwPower' = IF isCharging THEN ChargedPower
                                          ELSE throwPower
                         /\ UNCHANGED <<marbleBodies, lastRemoval, totalScore>>
         ELSE /\ updateThrew' = FALSE
              /\ throwPower' = IF isCharging THEN ChargedPower ELSE throwPower
              /\ UNCHANGED <<activeMarble, marbleBodies, lastRemoval,
                             totalScore>>

\* Game.gameLoop: one animation frame (world.step, then Player.update)
Frame ==
    /\ \E b \in BodyStates : PlayerUpdate(b)
    /\ UNCHANGED <<now, remainingMarbles, isCharging, chargeStartTime, timers,
                   throwCount>>
    /\ UNCHANGED <<placeVars, buildVars, synthVars, loopVars, elevVars, touch,
                   condorVars>>

\* The clock advances; a due timeout runs before the next tick.
Tick ==
    /\ now + TickMs <= MaxTime
    /\ \A i \in 1..Len(timers) : timers[i] > now
    /\ now' = now + TickMs
    /\ UNCHANGED <<remainingMarbles, isCharging, chargeStartTime, throwPower,
                   activeMarble, marbleBodies, timers, throwCount,
                   lastUpdateAt, lastRemoval, updateThrew, totalScore>>
    /\ UNCHANGED <<placeVars, buildVars, synthVars, loopVars, elevVars, touch,
                   condorVars>>

InitPlayer ==
    /\ touch = [held |-> FALSE, began |-> FALSE, count |-> 0]
    /\ now = 0
    /\ remainingMarbles = InitialMarbles
    /\ isCharging = FALSE
    /\ chargeStartTime = 0
    /\ throwPower = 0
    /\ activeMarble = NullMarble
    /\ marbleBodies = 0
    /\ timers = <<>>
    /\ throwCount = 0
    /\ lastUpdateAt = -1
    /\ lastRemoval = "none"
    /\ updateThrew = FALSE
    /\ totalScore = 0

-----------------------------------------------------------------------------
(* Terrain: parameters of the constructor, in mm *)
size == 5000
circleRadius == 2500
MaxAttempts == 100
RockRockGap == 500
HillRockGap == 600
HillHillGap == 800

\* floor(sqrt(n)) by bisection
RECURSIVE SqrtBetween(_, _, _)
SqrtBetween(n, lo, hi) ==
    IF lo >= hi THEN lo
    ELSE LET mid == (lo + hi + 1) \div 2
         IN  IF mid * mid <= n THEN SqrtBetween(n, mid, hi)
                               ELSE SqrtBetween(n, lo, mid - 1)

\* Math.sqrt, rounded down to the mm
ISqrt(n) == SqrtBetween(n, 0, 8191)

\* Math.sqrt(dx * dx + dz * dz)
Dist(dx, dz) == ISqrt(dx * dx + dz * dz)

\* What Math.random() * size - size / 2 can give for (x, z): points of
\* [-size/2, size/2) in the corners, beside each other and at the centre.
Candidates ==
    { [x |-> 0,     z |-> 0],
      [x |-> 2400,  z |-> 2400],
      [x |-> -2400, z |-> -2400],
      [x |-> 2450,  z |-> 1790],
      [x |-> -2450, z |-> -1790] }

\* some element of list is closer than gap to c
CloserThan(c, list, gap) ==
    \E k \in 1..Len(list) : Dist(list[k].x - c.x, list[k].z - c.z) < gap

RockRejected_NoRockCheck(c) ==
    Dist(c.x, c.z) < (circleRadius * 12) \div 10

\* the rejection test of the rock loop
RockRejected(c) ==
    \/ CloserThan(c, rockPositions, RockRockGap)
    \/ Dist(c.x, c.z) < (circleRadius * 12) \div 10

\* the rejection test of the hill loop, with the rocks and hills pushed so far
HillRejectedBy(c, rocks, hills) ==
    \/ CloserThan(c, rocks, HillRockGap)
    \/ CloserThan(c, hills, HillHillGap)
    \/ Dist(c.x, c.z) < (circleRadius * 13) \div 10

HillRejected(c) == HillRejectedBy(c, rockPositions, hillPositions)

GiveUp_Never(n) == FALSE

\* if (attempt > 100) break
GiveUp(n) == n > MaxAttempts

\* one iteration of a do-while with the candidate c drawn in it: test, then
\* break or continue (x and z are drawn afresh before they are read again)
DrawStep(c, rejected) ==
    /\ attempt' = attempt + 1
    /\ IF rejected
         THEN IF GiveUp(attempt + 1)
                THEN loopState' = "gaveup" /\ exhausted' = TRUE /\ cand' = c
                ELSE loopState' = "draw" /\ UNCHANGED <<exhausted, cand>>
         ELSE loopState' = "found" /\ cand' = c /\ UNCHANGED exhausted

\* an iteration of the do-while of the rock loop
RockDraw ==
    /\ placePc = "rocks" /\ loopState = "draw"
    /\ \E c \in Candidates : DrawStep(c, RockRejected(c))
    /\ UNCHANGED <<rockPositions, hillPositions, placePc>>
    /\ UNCHANGED <<playerVars, buildVars, synthVars, loopVars, elevVars, touch,
                   condorVars>>

\* rockPositions.push after the do-while, and the for loop's next round
RockPush ==
    /\ placePc = "rocks" /\ loopState \in {"found", "gaveup"}
    /\ rockPositions' = Append(rockPositions, cand)
    /\ attempt' = 0
    /\ loopState' = "draw"
    /\ placePc' = IF Len(rockPositions) + 1 < largeRockCount THEN "rocks"
                  ELSE IF hillCount > 0 THEN "hills" ELSE "done"
    /\ UNCHANGED <<hillPositions, cand, exhausted>>
    /\ UNCHANGED <<playerVars, buildVars, synthVars, loopVars, elevVars, touch,
                   condorVars>>

\* an iteration of the do-while of the hill loop
HillDraw ==
    /\ placePc = "hills" /\ loopState = "draw"
    /\ \E c \in Candidates : DrawStep(c, HillRejected(c))
    /\ UNCHANGED <<rockPositions, hillPositions, placePc>>
    /\ UNCHANGED <<playerVars, buildVars, synthVars, loopVars, elevVars, touch,
                   condorVars>>

\* hillPositions.push after the do-while, and the for loop's next round
HillPush ==
    /\ placePc = "hills" /\ loopState \in {"found", "gaveup"}
    /\ hillPositions' = Append(hillPositions, cand)
    /\ attempt' = 0
    /\ loopState' = "draw"
    /\ placePc' = IF Len(hillPositions) + 1 < hillCount THEN "hills" ELSE "done"
    /\ UNCHANGED <<rockPositions, cand, exhausted>>
    /\ UNCHANGED <<playerVars, buildVars, synthVars, loopVars, elevVars, touch,
                   condorVars>>

\* rockPositions = [], hillPositions = [] in the constructor
InitPlace ==
    /\ rockPositions = <<>>
    /\ hillPositions = <<>>
    /\ placePc = IF largeRockCount > 0 THEN "rocks"
                 ELSE IF hillCount > 0 THEN "hills" ELSE "done"
    /\ loopState = "draw"
    /\ attempt = 0
    /\ cand = [x |-> 0, z |-> 0]
    /\ exhausted = FALSE


\* fetchElevationData has not been called
ElevIdle ==
    /\ elevPc = "call"
    /\ image = [outcome |-> "load", x |-> 0, y |-> 0, red |-> 0]
    /\ elevData = [length |-> 0, value |-> 0, synthetic |-> FALSE]
    /\ fetchResult = [state |-> "pending"]

GoodPage == [three |-> TRUE, cannon |-> TRUE, webgl |-> TRUE,
             throwsAt |-> "none", mobile |-> FALSE]

\* Game.init is at new Terrain(...) and has not started the loop
LoopIdle ==
    /\ startPc = "objects"
    /\ page = GoodPage
    /\ errorElements = 0
    /\ gameObj = [created |-> TRUE, terrain |-> FALSE, player |-> FALSE]
    /\ mobileControls = FALSE
    /\ ElevIdle
    /\ loopPc = "idle"
    /\ lastFrameTime = 0
    /\ deltaTime = 0
    /\ stepCall = [called |-> FALSE]
    /\ accumulator = 0
    /\ marbleBody = [present |-> FALSE]
    /\ surface = [level |-> 0, slopeX |-> 0, slopeZ |-> 0]
    /\ post = [ran |-> FALSE]
    /\ frameLog = <<>>
    /\ pending = 0
    /\ thrown = "none"

\* no sample has been synthesized
SynthIdle ==
    /\ synth = "visual"
    /\ samples = <<>>
    /\ sampleIdx = 1
    /\ synthPc = "idle"
    /\ height = 0
    /\ draws = [map |-> 0, micro |-> 0, small |-> 0, bowl |-> 0]
    /\ heightData = <<>>
    /\ drawsData = <<>>
    /\ queried = [called |-> FALSE]

\* the construction of the physics ground has not begun
BuildIdle ==
    /\ terrainSize = size
    /\ resolution = 64
    /\ buildPc = "idle"
    /\ world = [bodies |-> <<>>, contacts |-> {}, nextId |-> 1]
    /\ mesh = [built |-> FALSE]
    /\ heightfield = [built |-> FALSE]
    /\ terrainBody = 0
    /\ marbleMaterial = 0
    /\ heightfieldThrew = FALSE
    /\ escaped = FALSE
    /\ rockMeshes = <<>>

\* the condor world as its Game constructor leaves it: the UIManager built,
\* the terrain, the condor and the controls not yet
CondorIdle ==
    /\ condor = [x |-> 0, y |-> 2000000, z |-> 0, rotY |-> 0, pitch |-> 0]
    /\ flightState = [speed |-> 1000, verticalSpeed |-> 0]
    /\ keys = {}
    /\ terrainMap = "plain"
    /\ flown = [updates |-> 0, floored |-> FALSE, terrainHeight |-> 0,
                elevation |-> 0]
    /\ camera = [created |-> FALSE, freeCamera |-> FALSE,
                 enableMouseControl |-> TRUE, enabled |-> FALSE,
                 isMouseDown |-> FALSE, help |-> "none"]
    /\ buttonLabel = "Free Camera: OFF"

\* The state when the Terrain constructor reaches generateObstaclePositions;
\* the player's fields are those its constructor sets.
Init ==
    InitPlayer /\ InitPlace /\ BuildIdle /\ SynthIdle /\ LoopIdle /\ CondorIdle

NextPlace == RockDraw \/ RockPush \/ HillDraw \/ HillPush

\* Terrain.generateObstaclePositions run from the constructor
SpecPlace == Init /\ [][NextPlace]_vars

Next ==
    \/ KeyDownSpace
    \/ KeyUpSpace
    \/ TouchThrowButton
    \/ ThrowTimerFires
    \/ Frame
    \/ Tick

Spec == Init /\ [][Next]_vars

-----------------------------------------------------------------------------
(* Terrain.createTerrain, Terrain.createPhysicsGround and the contact        *)
(* materials of the Player.  A material is the id CANNON gives it: every     *)
(* new CANNON.Material is a new id, whatever its name.  A number that need   *)
(* not be whole is a fraction [n, d].                                        *)

MaxPhysicsResolution == 128
MinRockBodySize == 50

Frac(n, d) == [n |-> n, d |-> d]
FracEq(a, b) == a.n * b.d = b.n * a.d
FracMul(k, a) == [n |-> k * a.n, d |-> a.d]
FracHalfNeg(a) == [n |-> -a.n, d |-> 2 * a.d]

NoGrid == [built |-> FALSE]

\* THREE.PlaneGeometry(size, size, resolution - 1, resolution - 1), rotated
\* onto the XZ plane and centred: vertex (0, 0) lies at (-size/2, -size/2)
VisualGrid(sz, res) ==
    [built |-> TRUE, points |-> res,
     cell |-> Frac(sz, res - 1),
     originX |-> Frac(-sz, 2), originZ |-> Frac(-sz, 2)]

PhysicsResolution_Visual(res) == res

\* Math.min(128, Math.floor(this.resolution * 1.5))
PhysicsResolution(res) == Min(MaxPhysicsResolution, (res * 15) \div 10)

ElementSize_PerPoint(sz, res) == Frac(sz, PhysicsResolution(res))

\* this.size / (physicsResolution - 1)
ElementSize(sz, res) == Frac(sz, PhysicsResolution(res) - 1)

\* the heightfield shape and the position its body is given
PhysicsGrid(sz, res) ==
    LET pr == PhysicsResolution(res)
        el == ElementSize(sz, res)
        sizeX == FracMul(pr - 1, el)
        sizeZ == FracMul(pr - 1, el)
    IN  [built |-> TRUE, points |-> pr, cell |-> el,
         originX |-> FracHalfNeg(sizeX), originZ |-> FracHalfNeg(sizeZ)]

EmptyWorld == [bodies |-> <<>>, contacts |-> {}, nextId |-> 1]

\* world.addBody of a body that carries a new CANNON.Material
AddBodyNewMaterial(w, kind) ==
    [w EXCEPT !.bodies = Append(@, [kind |-> kind, material |-> w.nextId]),
              !.nextId = @ + 1]

\* world.addContactMaterial(new ContactMaterial(m, new CANNON.Material(..)))
AddContactWithNewMaterial(w, m) ==
    [w EXCEPT !.contacts = @ \cup {{m, w.nextId}}, !.nextId = @ + 1]

\* world.addContactMaterial(new ContactMaterial(a, b)) of two known materials
AddContact(w, a, b) == [w EXCEPT !.contacts = @ \cup {{a, b}}]

\* a static body with its own new material, and a contact material that pairs
\* that material with a new CANNON.Material('marbleMaterial')
AddFeatureBody(w, kind) ==
    AddContactWithNewMaterial(AddBodyNewMaterial(w, kind), w.nextId)

\* new CANNON.Body({mass: 0, position: (x, y, z)}) with one CANNON.Sphere of
\* the given radius, its own new material and its contact material; x and z
\* in mm, y and the radius in um
AddSphereBody(w, kind, x, y, z, radius) ==
    AddContactWithNewMaterial(
        [w EXCEPT !.bodies = Append(@, [kind |-> kind, material |-> w.nextId,
                                        mass |-> 0, x |-> x, y |-> y,
                                        z |-> z, radius |-> radius]),
                  !.nextId = @ + 1],
        w.nextId)

\* Terrain.addRockBodies: rocks smaller than 0.05 get no body
RECURSIVE AddRockBodies_All(_, _)
AddRockBodies_All(w, rocks) ==
    IF rocks = <<>> THEN w
    ELSE AddRockBodies_All(
             AddSphereBody(w, "rock", Head(rocks).x, Head(rocks).height * 500,
                           Head(rocks).z, Head(rocks).size * 1100),
             Tail(rocks))

\* a rock body: CANNON.Sphere(rock.size * 1.1) at (x, rock.height / 2, z)
RECURSIVE AddRockBodies(_, _)
AddRockBodies(w, rocks) ==
    IF rocks = <<>> THEN w
    ELSE AddRockBodies(
             IF Head(rocks).size < MinRockBodySize THEN w
             ELSE AddSphereBody(w, "rock", Head(rocks).x,
                                Head(rocks).height * 500, Head(rocks).z,
                                Head(rocks).size * 1100),
             Tail(rocks))

\* the hill loop of Terrain.addTerrainFeatures
RECURSIVE AddHillBodies(_, _)
AddHillBodies(w, hills) ==
    IF hills = <<>> THEN w
    ELSE AddHillBodies(
             AddSphereBody(w, "hill", Head(hills).x, Head(hills).height * 500,
                           Head(hills).z, Head(hills).radius * 900),
             Tail(hills))

FrictionZoneCount == 5

\* Terrain.addTerrainFrictionZones
RECURSIVE AddFrictionZones(_, _)
AddFrictionZones(w, n) ==
    IF n = 0 THEN w ELSE AddFrictionZones(AddFeatureBody(w, "zone"), n - 1)

\* Terrain.addTerrainFeatures
AddTerrainFeatures(w) ==
    AddFrictionZones(AddHillBodies(AddRockBodies(w, rockPositions),
                                   hillPositions),
                     FrictionZoneCount)

GroundSteps_PlaneLast ==
    <<"heightfield", "body", "contact", "features", "plane">>

\* the statements of the try block of createPhysicsGround that touch the
\* world, in their order
GroundSteps == <<"plane", "heightfield", "body", "contact", "features">>

IsGroundStep(pc) == \E k \in 1..Len(GroundSteps) : GroundSteps[k] = pc

\* the try block spans the whole body of createPhysicsGround: a throw at
\* any of its statements enters the catch, which logs and returns
Caught(pc) == IsGroundStep(pc)

\* the statement after pc in the try block; "rest" once the block is done
AfterStep(pc) ==
    LET k == CHOOSE i \in 1..Len(GroundSteps) : GroundSteps[i] = pc
    IN  IF k < Len(GroundSteps) THEN GroundSteps[k + 1] ELSE "rest"

\* Terrain.generateTerrainGeometry and the mesh of createTerrain
GenerateTerrainGeometry ==
    /\ buildPc = "geometry"
    /\ mesh' = VisualGrid(terrainSize, resolution)
    /\ buildPc' = GroundSteps[1]
    /\ UNCHANGED <<terrainSize, resolution, world, heightfield, terrainBody,
                   marbleMaterial, heightfieldThrew, escaped,
                   rockMeshes>>
    /\ UNCHANGED <<playerVars, placeVars, synthVars, loopVars, elevVars, touch,
                   condorVars>>

\* createPhysicsGround: the backup ground plane
AddGroundPlane ==
    /\ buildPc = "plane"
    /\ world' = AddBodyNewMaterial(world, "groundPlane")
    /\ buildPc' = AfterStep("plane")
    /\ UNCHANGED <<terrainSize, resolution, mesh, heightfield, terrainBody,
                   marbleMaterial, heightfieldThrew, escaped,
                   rockMeshes>>
    /\ UNCHANGED <<playerVars, placeVars, synthVars, loopVars, elevVars, touch,
                   condorVars>>

\* createPhysicsGround: new CANNON.Heightfield, which may throw into the catch
CreateHeightfield ==
    /\ buildPc = "heightfield"
    /\ \/ /\ heightfield' = PhysicsGrid(terrainSize, resolution)
          /\ buildPc' = AfterStep("heightfield")
          /\ UNCHANGED <<heightfieldThrew, escaped>>
       \/ /\ heightfieldThrew' = TRUE
          /\ IF Caught("heightfield")
               THEN buildPc' = "rest" /\ UNCHANGED escaped
               ELSE buildPc' = "aborted" /\ escaped' = TRUE
          /\ UNCHANGED heightfield
    /\ UNCHANGED <<terrainSize, resolution, world, mesh, terrainBody,
                   marbleMaterial,
                   rockMeshes>>
    /\ UNCHANGED <<playerVars, placeVars, synthVars, loopVars, elevVars, touch,
                   condorVars>>

\* createPhysicsGround: this.body with its terrainMaterial, added to the world
AddTerrainBody ==
    /\ buildPc = "body"
    /\ terrainBody' = world.nextId
    /\ world' = AddBodyNewMaterial(world, "terrain")
    /\ buildPc' = AfterStep("body")
    /\ UNCHANGED <<terrainSize, resolution, mesh, heightfield, marbleMaterial,
                   heightfieldThrew, escaped,
                   rockMeshes>>
    /\ UNCHANGED <<playerVars, placeVars, synthVars, loopVars, elevVars, touch,
                   condorVars>>

\* createPhysicsGround: contact material of the heightfield with a new
\* defaultMaterial
AddTerrainContact ==
    /\ buildPc = "contact"
    /\ world' = AddContactWithNewMaterial(world, terrainBody)
    /\ buildPc' = AfterStep("contact")
    /\ UNCHANGED <<terrainSize, resolution, mesh, heightfield, terrainBody,
                   marbleMaterial, heightfieldThrew, escaped,
                   rockMeshes>>
    /\ UNCHANGED <<playerVars, placeVars, synthVars, loopVars, elevVars, touch,
                   condorVars>>

\* createPhysicsGround: this.addTerrainFeatures()
AddFeatures ==
    /\ buildPc = "features"
    /\ world' = AddTerrainFeatures(world)
    /\ buildPc' = AfterStep("features")
    /\ UNCHANGED <<terrainSize, resolution, mesh, heightfield, terrainBody,
                   marbleMaterial, heightfieldThrew, escaped,
                   rockMeshes>>
    /\ UNCHANGED <<playerVars, placeVars, synthVars, loopVars, elevVars, touch,
                   condorVars>>

MinVisibleRockSize == 50

\* Terrain.createVisibleRocks: one mesh of SphereGeometry(rock.size) at
\* (x, rock.height / 2 - 0.01, z) for each rock of size 0.05 or more; x, z and
\* the size in mm, y in um
RECURSIVE createVisibleRocks(_)
createVisibleRocks(rocks) ==
    IF rocks = <<>> THEN <<>>
    ELSE IF Head(rocks).size < MinVisibleRockSize
           THEN createVisibleRocks(Tail(rocks))
           ELSE <<[x |-> Head(rocks).x, y |-> Head(rocks).height * 500 - 10000,
                   z |-> Head(rocks).z, size |-> Head(rocks).size]>>
                \o createVisibleRocks(Tail(rocks))

\* the rest of the Terrain constructor, createVisibleRocks in it; nothing in
\* it reads this.body
FinishTerrain ==
    /\ buildPc = "rest"
    /\ buildPc' = "player"
    /\ rockMeshes' = createVisibleRocks(rockPositions)
    /\ UNCHANGED <<terrainSize, resolution, world, mesh, heightfield,
                   terrainBody, marbleMaterial, heightfieldThrew, escaped>>
    /\ UNCHANGED <<playerVars, placeVars, synthVars, loopVars, elevVars, touch,
                   condorVars>>

\* Player.createMarbleMaterials on the world w, marble being the id of
\* this.marbleMaterial
MarbleContacts(w, marble) ==
    LET ground ==
            IF terrainBody # 0
              THEN AddContactWithNewMaterial(
                       AddContact(w, marble, terrainBody), marble)
              ELSE AddContactWithNewMaterial(w, marble)
        default == AddContactWithNewMaterial(ground, marble)
    IN  AddContactWithNewMaterial(default, marble)

\* new Player(...): Player.createMarbleMaterials
CreateMarbleMaterials ==
    /\ buildPc = "player"
    /\ marbleMaterial' = world.nextId
    /\ world' = MarbleContacts([world EXCEPT !.nextId = @ + 1], world.nextId)
    /\ buildPc' = "done"
    /\ UNCHANGED <<terrainSize, resolution, mesh, heightfield, terrainBody,
                   heightfieldThrew, escaped,
                   rockMeshes>>
    /\ UNCHANGED <<playerVars, placeVars, synthVars, loopVars, elevVars, touch,
                   condorVars>>

\* Sizes and resolutions a Terrain is constructed with (the game: 5.0, 64)
TerrainSizes == {3000, 5000, 8000}
Resolutions == {2, 3, 5, 64, 85, 86, 128, 200}

\* Rock and hill lists that generateObstaclePositions can leave, with the
\* size and height drawn at the push (rocks 40..100 mm, hills 200..450 mm).
\* The last list of each has a feature near the centre, where only a
\* do-while that gave up can put one.
RockLists ==
    { <<>>,
      << [x |-> 2400, z |-> 2400, size |-> 45, height |-> 60] >>,
      << [x |-> 2400, z |-> 2400, size |-> 50, height |-> 60],
         [x |-> -2400, z |-> -2400, size |-> 49, height |-> 90] >>,
      << [x |-> 2450, z |-> 1790, size |-> 80, height |-> 50],
         [x |-> -2450, z |-> -1790, size |-> 99, height |-> 99] >>,
      << [x |-> 0, z |-> 0, size |-> 80, height |-> 70] >>,
      << [x |-> 2420, z |-> 2500, size |-> 80, height |-> 70],
         [x |-> -2400, z |-> -2400, size |-> 50, height |-> 60] >> }

HillLists ==
    { <<>>,
      << [x |-> 2400, z |-> 2400, radius |-> 300, height |-> 80] >>,
      << [x |-> 2400, z |-> 2400, radius |-> 200, height |-> 50],
         [x |-> -2400, z |-> -2400, radius |-> 449, height |-> 129] >>,
      << [x |-> 100, z |-> 0, radius |-> 400, height |-> 100] >> }

\* Game.init at new Terrain(...), after generateObstaclePositions
InitBuild ==
    /\ InitPlayer
    /\ CondorIdle
    /\ rockPositions \in RockLists
    /\ hillPositions \in HillLists
    /\ placePc = "done"
    /\ loopState = "draw"
    /\ attempt = 0
    /\ cand = [x |-> 0, z |-> 0]
    /\ exhausted \in BOOLEAN
    /\ terrainSize \in TerrainSizes
    /\ resolution \in Resolutions
    /\ buildPc = "geometry"
    /\ world = EmptyWorld
    /\ mesh = NoGrid
    /\ heightfield = NoGrid
    /\ terrainBody = 0
    /\ marbleMaterial = 0
    /\ heightfieldThrew = FALSE
    /\ escaped = FALSE
    /\ rockMeshes = <<>>
    /\ SynthIdle
    /\ LoopIdle

NextBuild ==
    \/ GenerateTerrainGeometry
    \/ AddGroundPlane
    \/ CreateHeightfield
    \/ AddTerrainBody
    \/ AddTerrainContact
    \/ AddFeatures
    \/ FinishTerrain
    \/ CreateMarbleMaterials

\* new Terrain(...) and new Player(...) in Game.init
SpecBuild == InitBuild /\ [][NextBuild]_vars

-----------------------------------------------------------------------------
(* Height synthesis: Terrain.generateTerrainGeometry (the mesh vertices),    *)
(* the height matrix of Terrain.createPhysicsGround, and the analytic path   *)
(* of Terrain.getHeightAt.  Horizontal lengths are in mm, elevations in      *)
(* micrometres, angles in 1e-4 rad, and the values of sin, cos, pow and      *)
(* noise in thousandths.  Math.sin is Bhaskara's rational approximation      *)
(* (error below 0.002); Math.pow goes through a logarithm and an             *)
(* exponential series (error below 0.002).                                   *)

rimWidth == 500
rimHeight == 50000
holeDepth == 150000
centerHoleRadius == 300
centerHoleDepth == 200000
bumpiness == 50000

\* floor(a * b / c) without leaving 32 bits, for c > 0
MulDiv(a, b, c) == (a \div c) * b + ((a % c) * b) \div c

\* Math.PI and 2 * Math.PI, in 1e-4 rad and in 1e-6 rad
Pi4 == 31416
TwoPiMicro == 6283185

\* sin y for 0 <= y <= Pi4: 16 y (pi - y) / (5 pi^2 - 4 y (pi - y))
SinHalfTurn(y) ==
    LET p == y * (Pi4 - y)
    IN  (4 * p) \div ((5 * ((Pi4 * Pi4) \div 4) - p) \div 1000)

\* Math.sin of an angle given in 1e-4 rad, 0 <= y < 2 pi
SinTurn(y) ==
    IF y <= Pi4 THEN SinHalfTurn(y) ELSE -SinHalfTurn(Min(y - Pi4, Pi4))

\* Math.sin of an angle given in thousandths of a radian
Sin(m) == SinTurn(((m * 1000) % TwoPiMicro) \div 100)

\* Terrain.noise(nx, ny), arguments and value in thousandths
noise(nx, ny) ==
      (Sin(nx * 10) * Sin(ny * 10)) \div 2000
    + (Sin(nx * 20 + 300) * Sin(ny * 20 + 100)) \div 4000
    + (Sin(nx * 40 + 500) * Sin(ny * 40 + 700)) \div 8000

\* Math.log of x / 10000 for 0 < x <= 10000, in 1e-4: x is doubled into
\* [0.5, 1], there ln x = 2 (w + w^3/3 + w^5/5 + w^7/7), w = (x-1)/(x+1)
RECURSIVE Ln(_)
Ln(x) ==
    IF x < 5000 THEN Ln(2 * x) - 6931
    ELSE LET w == ((x - 10000) * 10000) \div (x + 10000)
             w2 == (w * w) \div 10000
             w3 == (w * w2) \div 10000
             w5 == (w3 * w2) \div 10000
             w7 == (w5 * w2) \div 10000
         IN  2 * (w + w3 \div 3 + w5 \div 5 + w7 \div 7)

\* Math.exp of t / 10000 for t <= 0, in 1e-4: halved once per ln 2 in -t,
\* then the exponential series on what is left
RECURSIVE Exp(_)
Exp(t) ==
    IF t < -6931 THEN Exp(t + 6931) \div 2
    ELSE LET t1 == t
             t2 == (t1 * t) \div 20000
             t3 == (t2 * t) \div 30000
             t4 == (t3 * t) \div 40000
             t5 == (t4 * t) \div 50000
             t6 == (t5 * t) \div 60000
         IN  10000 + t1 + t2 + t3 + t4 + t5 + t6

\* Math.pow(x / 10000, e / 10000) for 0 <= x <= 10000 and e > 0, in 1e-4
Pow(x, e) == IF x = 0 THEN 0 ELSE Exp(MulDiv(Ln(x), e, 10000))

\* Math.sqrt of n, rounded down, for 0 <= n < 2^31
Sqrt(n) == SqrtBetween(n, 0, 46340)

\* the number of grid points on a side: resolution for the mesh,
\* physicsResolution for the height matrix
GridPoints ==
    IF synth = "visual" THEN resolution ELSE PhysicsResolution(resolution)

\* (k / (points - 1) - 0.5) * size, the coordinate of grid index k
Coord(k) == MulDiv(k, terrainSize, GridPoints - 1) - terrainSize \div 2

\* the world position of the sample with indices <<i, j>>: x follows j, z
\* follows i
PointOf(s) == [x |-> Coord(s[2]), z |-> Coord(s[1])]

\* x * x + z * z, and distFromCenter in tenths of a mm
DistSq(p) == p.x * p.x + p.z * p.z
Dist10(p) == Sqrt(100 * DistSq(p))

\* this.noise(x / (this.size * scale), z / (this.size * scale)), inv = 1/scale
NoiseAt(p, inv) ==
    noise(MulDiv(p.x * inv, 1000, terrainSize),
          MulDiv(p.z * inv, 1000, terrainSize))

\* noiseValue: the four layers, weighted
noiseValue(p) ==
    IF synth = "visual"
      THEN (4 * NoiseAt(p, 1) + 3 * NoiseAt(p, 2) + 2 * NoiseAt(p, 5)
            + NoiseAt(p, 20)) \div 10
      ELSE (3 * NoiseAt(p, 1) + 3 * NoiseAt(p, 4) + 2 * NoiseAt(p, 10)
            + 2 * NoiseAt(p, 50)) \div 10

\* noiseValue * bumpiness, in the height matrix times
\* bumpScale = min(1, distFromCenter / (circleRadius + rimWidth))
NoiseTerm(p) ==
    LET plain == MulDiv(noiseValue(p), bumpiness, 1000)
        full == 10 * (circleRadius + rimWidth)
    IN  IF synth = "visual" THEN plain
        ELSE MulDiv(plain, Min(Dist10(p), full), full)

\* getHeightFromMap: 0 while the image is not loaded, else the red channel
\* of a pixel / 255 * heightScale (0.15)
Pixels == {0, 255}
getHeightFromMap(pixel) == (pixel * 150000) \div 255

\* what Math.random() can add: 0 when the bump is not drawn, else a value
\* of its range (the greatest, to the micrometre)
MicroBumps == IF synth = "visual" THEN {0, 14999} ELSE {0, 19999}
SmallRocks == {0, 29999}
BowlBumps == IF synth = "visual" THEN {0, 9999} ELSE {0, 11999}

\* a point is under a feature of reach r10 (tenths of a mm) at (fx, fz)
\* when its distance is below the reach
FeatureDistSq(f, p) == (p.x - f.x) * (p.x - f.x) + (p.z - f.z) * (p.z - f.z)
Covers(f, p, r10) == FeatureDistSq(f, p) <= (r10 * r10 - 1) \div 100

\* rock.height * sqrt(1 - (distToRock / reach)^2); reach is rock.size in
\* the mesh and in getHeightAt (mult = 10), rock.size * 1.1 in the matrix
RockProfile(rock, p, mult) ==
    LET r10 == rock.size * mult
    IN  IF Covers(rock, p, r10)
          THEN MulDiv(rock.height * 1000,
                      Sqrt(r10 * r10 - 100 * FeatureDistSq(rock, p)), r10)
          ELSE 0

\* hill.height * cos((distToHill / reach) * (pi / 2)); reach is hill.radius
\* (mult = 100) or hill.radius * 1.05 (mult = 105)
HillProfile(hill, p, mult) ==
    LET r10 == (hill.radius * mult) \div 10
    IN  IF Covers(hill, p, r10)
          THEN LET d10 == Sqrt(100 * FeatureDistSq(hill, p))
                   angle == MulDiv(d10, Pi4 \div 2, r10)
               IN  MulDiv(hill.height * 1000,
                          SinHalfTurn(angle + Pi4 \div 2), 1000)
          ELSE 0

RockMult_Visual == IF synth = "visual" THEN 10 ELSE 10

RockMult == IF synth = "visual" THEN 10 ELSE 11
HillMult == IF synth = "visual" THEN 100 ELSE 105

\* the loop over this.rockPositions: height += rockProfile
RECURSIVE RockSum(_, _)
RockSum(rocks, p) ==
    IF rocks = <<>> THEN 0
    ELSE RockProfile(Head(rocks), p, RockMult) + RockSum(Tail(rocks), p)

\* the loop over this.hillPositions: height += hillProfile
RECURSIVE HillSum(_, _)
HillSum(hills, p) ==
    IF hills = <<>> THEN 0
    ELSE HillProfile(Head(hills), p, HillMult) + HillSum(Tail(hills), p)

InCenterHole(p) == DistSq(p) < centerHoleRadius * centerHoleRadius
InCircle(p) == DistSq(p) < circleRadius * circleRadius
OnRim(p) ==
    DistSq(p) < (circleRadius + rimWidth) * (circleRadius + rimWidth)

\* -this.centerHoleDepth * (1 - normalizedDist * normalizedDist)
CenterHole(p) ==
    -MulDiv(centerHoleDepth,
            centerHoleRadius * centerHoleRadius - DistSq(p),
            centerHoleRadius * centerHoleRadius)

\* distFromCenter / this.circleRadius, in 1e-4
NormalizedDist(p) == MulDiv(Dist10(p), 10000, 10 * circleRadius)

\* holeDepth * (1 - Math.pow(normalizedDist, 2 + edgeNoise)),
\* edgeNoise = noise(normalizedDist * 10, normalizedDist * 5) * 0.2
BowlDepth(p) ==
    LET nd == NormalizedDist(p)
        edgeNoise == 2 * noise(nd, nd \div 2)
    IN  MulDiv(holeDepth, 10000 - Pow(nd, 20000 + edgeNoise), 10000)

\* Math.sin(rimPosition * Math.PI), in thousandths
RimSine(p) ==
    SinHalfTurn(MulDiv(Dist10(p) - 10 * circleRadius, Pi4, 10 * rimWidth))

\* rimHeight * sin(rimPosition * pi) * (1 + noise(x * 5, z * 5) * 0.3)
RimTerm(p) ==
    LET rimNoise == (3 * noise(p.x * 5, p.z * 5)) \div 10
    IN  MulDiv(rimHeight, MulDiv(RimSine(p), 1000 + rimNoise, 1000), 1000)

\* small rocks are drawn only beyond circleRadius + 0.1
SmallRockAt(p) ==
    DistSq(p) > (circleRadius + 100) * (circleRadius + 100)

\* the bump of the bowl branch is drawn only beyond twice the hole radius
BowlBumpAt(p) ==
    InCircle(p) /\ DistSq(p) > 4 * centerHoleRadius * centerHoleRadius

Shape_HoleAdds(p, h, bump) ==
    IF InCenterHole(p) THEN h + CenterHole(p)
    ELSE IF InCircle(p) THEN h - BowlDepth(p) + bump
    ELSE IF OnRim(p) THEN h + RimTerm(p)
    ELSE h

\* the if / else if chain on distFromCenter that ends the loop body: the
\* centre hole assigns height, the bowl and the rim change it
Shape(p, h, bump) ==
    IF InCenterHole(p) THEN CenterHole(p)
    ELSE IF InCircle(p) THEN h - BowlDepth(p) + bump
    ELSE IF OnRim(p) THEN h + RimTerm(p)
    ELSE h

\* the analytic path of getHeightAt: the shaping by distance, without
\* noise, then the maximum with every rock and hill profile
AnalyticBase(p) ==
    IF InCenterHole(p) THEN CenterHole(p)
    ELSE IF InCircle(p)
      THEN LET nd == NormalizedDist(p)
           IN  -MulDiv(holeDepth, 10000 - (nd * nd) \div 10000, 10000)
    ELSE IF OnRim(p) THEN MulDiv(rimHeight, RimSine(p), 1000)
    ELSE 0

Max(a, b) == IF a > b THEN a ELSE b

RockMax_Adds(rocks, p, h) == h + RockSum(rocks, p)

RECURSIVE RockMax(_, _, _)
RockMax(rocks, p, h) ==
    IF rocks = <<>> THEN h
    ELSE RockMax(Tail(rocks), p,
                 IF Covers(Head(rocks), p, Head(rocks).size * 10)
                   THEN Max(h, RockProfile(Head(rocks), p, 10)) ELSE h)

RECURSIVE HillMax(_, _, _)
HillMax(hills, p, h) ==
    IF hills = <<>> THEN h
    ELSE HillMax(Tail(hills), p,
                 IF Covers(Head(hills), p, Head(hills).radius * 10)
                   THEN Max(h, HillProfile(Head(hills), p, 100)) ELSE h)

\* getHeightAt(x, z) when the ray meets no mesh
AnalyticHeight(p) ==
    HillMax(hillPositions, p, RockMax(rockPositions, p, AnalyticBase(p)))

SynthStages_ShapeAfterNoise ==
    <<"noise", "shape", "rocks", "hills", "microbump", "smallrock", "store">>

\* the blocks of the loop body, in their order in the code
SynthStages ==
    <<"noise", "microbump", "smallrock", "rocks", "hills", "shape", "store">>

\* the block after pc; the loop body starts over after the last one
NextStage(pc) ==
    LET k == CHOOSE i \in 1..Len(SynthStages) : SynthStages[i] = pc
    IN  SynthStages[(k % Len(SynthStages)) + 1]

Sample == PointOf(samples[sampleIdx])

\* let height = getHeightFromMap(u, v); height += noiseValue * bumpiness
\* (the height matrix starts from 0)
NoiseStage ==
    /\ synthPc = "noise"
    /\ \E pixel \in (IF synth = "visual" THEN Pixels ELSE {0}) :
          /\ height' = getHeightFromMap(pixel) + NoiseTerm(Sample)
          /\ draws' = [map |-> getHeightFromMap(pixel), micro |-> 0,
                       small |-> 0, bowl |-> 0]
    /\ synthPc' = NextStage("noise")
    /\ UNCHANGED <<synth, samples, sampleIdx, heightData, drawsData, queried>>
    /\ UNCHANGED <<playerVars, placeVars, buildVars, loopVars, elevVars, touch,
                   condorVars>>

\* if (Math.random() < ...) height += microBump
MicroBumpStage ==
    /\ synthPc = "microbump"
    /\ \E bump \in MicroBumps :
          /\ height' = height + bump
          /\ draws' = [draws EXCEPT !.micro = bump]
    /\ synthPc' = NextStage("microbump")
    /\ UNCHANGED <<synth, samples, sampleIdx, heightData, drawsData, queried>>
    /\ UNCHANGED <<playerVars, placeVars, buildVars, loopVars, elevVars, touch,
                   condorVars>>

\* if (Math.random() < ... && distFromCenter > circleRadius + 0.1)
\*     height += rockSize
SmallRockStage ==
    /\ synthPc = "smallrock"
    /\ \E rock \in (IF SmallRockAt(Sample) THEN SmallRocks ELSE {0}) :
          /\ height' = height + rock
          /\ draws' = [draws EXCEPT !.small = rock]
    /\ synthPc' = NextStage("smallrock")
    /\ UNCHANGED <<synth, samples, sampleIdx, heightData, drawsData, queried>>
    /\ UNCHANGED <<playerVars, placeVars, buildVars, loopVars, elevVars, touch,
                   condorVars>>

\* for (const rock of this.rockPositions) ... height += rockProfile
RocksStage ==
    /\ synthPc = "rocks"
    /\ height' = height + RockSum(rockPositions, Sample)
    /\ synthPc' = NextStage("rocks")
    /\ UNCHANGED <<synth, samples, sampleIdx, draws, heightData, drawsData,
                   queried>>
    /\ UNCHANGED <<playerVars, placeVars, buildVars, loopVars, elevVars, touch,
                   condorVars>>

\* for (const hill of this.hillPositions) ... height += hillProfile
HillsStage ==
    /\ synthPc = "hills"
    /\ height' = height + HillSum(hillPositions, Sample)
    /\ synthPc' = NextStage("hills")
    /\ UNCHANGED <<synth, samples, sampleIdx, draws, heightData, drawsData,
                   queried>>
    /\ UNCHANGED <<playerVars, placeVars, buildVars, loopVars, elevVars, touch,
                   condorVars>>

\* the centre hole / bowl / rim chain
ShapeStage ==
    /\ synthPc = "shape"
    /\ \E bump \in (IF BowlBumpAt(Sample) THEN BowlBumps ELSE {0}) :
          /\ height' = Shape(Sample, height, bump)
          /\ draws' = [draws EXCEPT !.bowl = bump]
    /\ synthPc' = NextStage("shape")
    /\ UNCHANGED <<synth, samples, sampleIdx, heightData, drawsData, queried>>
    /\ UNCHANGED <<playerVars, placeVars, buildVars, loopVars, elevVars, touch,
                   condorVars>>

\* vertices[i + 1] = height / heights[i][j] = height, and the loop goes on
StoreStage ==
    /\ synthPc = "store"
    /\ heightData' = Append(heightData, height)
    /\ drawsData' = Append(drawsData, draws)
    /\ sampleIdx' = sampleIdx + 1
    /\ synthPc' = IF sampleIdx = Len(samples) THEN "done"
                  ELSE NextStage("store")
    /\ UNCHANGED <<synth, samples, height, draws, queried>>
    /\ UNCHANGED <<playerVars, placeVars, buildVars, loopVars, elevVars, touch,
                   condorVars>>

\* Terrain.getHeightAt at a vertex of the finished mesh: the height of the
\* mesh where the ray meets it, the analytic height where it meets nothing.
\* The function changes nothing, so one call is followed.
GetHeightAt ==
    /\ synthPc = "done"
    /\ synth = "visual"
    /\ ~queried.called
    /\ \E k \in 1..Len(samples), hit \in BOOLEAN :
          LET p == PointOf(samples[k])
              half == terrainSize \div 2
          IN  queried' =
                [called |-> TRUE, at |-> k, hit |-> hit,
                 value |-> IF p.x > half \/ -p.x > half
                              \/ p.z > half \/ -p.z > half THEN 0
                           ELSE IF hit THEN heightData[k]
                           ELSE AnalyticHeight(p)]
    /\ UNCHANGED <<synth, samples, sampleIdx, synthPc, height, draws,
                   heightData, drawsData>>
    /\ UNCHANGED <<playerVars, placeVars, buildVars, loopVars, elevVars, touch,
                   condorVars>>

\* Grid indices <<i, j>> followed through the loops, in loop order, on the
\* grids of 51 points a side (100 mm apart, index 25 at the centre)
SampleRuns ==
    { << <<25, 25>>, <<25, 27>>, <<25, 28>> >>,
      << <<25, 26>>, <<27, 27>>, <<28, 25>> >>,
      << <<24, 26>>, <<25, 24>>, <<25, 32>> >>,
      << <<25, 50>>, <<30, 50>> >>,
      << <<49, 49>>, <<49, 50>>, <<50, 50>> >>,
      << <<1, 1>>, <<50, 50>> >> }

\* new Terrain(scene, world, 5.0, 51) gives a mesh of 51 x 51 vertices and
\* new Terrain(scene, world, 5.0, 34) a height matrix of 51 x 51 entries
InitSynth ==
    /\ InitPlayer
    /\ CondorIdle
    /\ rockPositions \in RockLists
    /\ hillPositions \in HillLists
    /\ placePc = "done"
    /\ loopState = "draw"
    /\ attempt = 0
    /\ cand = [x |-> 0, z |-> 0]
    /\ exhausted = FALSE
    /\ terrainSize = size
    /\ synth \in {"visual", "physics"}
    /\ resolution = (IF synth = "visual" THEN 51 ELSE 34)
    /\ buildPc = "idle"
    /\ world = EmptyWorld
    /\ mesh = NoGrid
    /\ heightfield = NoGrid
    /\ terrainBody = 0
    /\ marbleMaterial = 0
    /\ heightfieldThrew = FALSE
    /\ escaped = FALSE
    /\ rockMeshes = <<>>
    /\ samples \in SampleRuns
    /\ sampleIdx = 1
    /\ synthPc = SynthStages[1]
    /\ height = 0
    /\ draws = [map |-> 0, micro |-> 0, small |-> 0, bowl |-> 0]
    /\ heightData = <<>>
    /\ drawsData = <<>>
    /\ queried = [called |-> FALSE]
    /\ LoopIdle

NextSynth ==
    \/ NoiseStage
    \/ MicroBumpStage
    \/ SmallRockStage
    \/ RocksStage
    \/ HillsStage
    \/ ShapeStage
    \/ StoreStage
    \/ GetHeightAt

\* the sample loops of generateTerrainGeometry and createPhysicsGround
SpecSynth == InitSynth /\ [][NextSynth]_vars

-----------------------------------------------------------------------------
(* The game loop: Game.gameLoop, Game.update and the terrain interaction of
   Player.update.  Times handed to the physics world are in 1/240000 s. *)

UnitsPerMs == 240
fixedTimeStep == 1000     \* 1/240 s
maxSubSteps == 16
MaxDelta == 8000          \* 1/30 s
sampleDistance == 30      \* mm
SubTick == {0, 4500}      \* the part of a frame delta below one clock tick
LoopMaxTime == 3000       \* the loop is followed until this time

Abs(a) == IF a < 0 THEN -a ELSE a

CappedDelta_Unclamped(dt) == Max(dt, dt)

\* Game.update: const cappedDelta = Math.min(deltaTime, 1/30)
CappedDelta(dt) == Min(dt, MaxDelta)

\* world.step(dt, timeSinceLastCalled, maxSubSteps) of cannon.js: one fixed
\* step when no time has passed, else whole fixed steps out of the accumulator
SubSteps(acc, elapsed) ==
    IF elapsed = 0 THEN 1
    ELSE Min((acc + elapsed) \div fixedTimeStep, maxSubSteps)

\* Terrain.getHeightAt where the ray hits the mesh: 0 outside the square
HeightAt(g, x, z) ==
    IF Abs(x) > size \div 2 \/ Abs(z) > size \div 2 THEN 0
    ELSE g.level + g.slopeX * x + g.slopeZ * z

Surfaces ==
    { [level |-> 0,      slopeX |-> 0,   slopeZ |-> 0],
      [level |-> -50000, slopeX |-> 0,   slopeZ |-> 0],
      [level |-> -20000, slopeX |-> 150, slopeZ |-> -60] }

Marble(x, y, z, vx, vy, vz, hit) ==
    [present |-> TRUE, x |-> x, y |-> y, z |-> z,
     vx |-> vx, vy |-> vy, vz |-> vz, hit |-> hit]

\* What world.step can leave in the marble body; hit: an obstacle collision
\* was recorded less than 500 ms ago.
LoopBodies ==
    { Marble(500, 50, 0, 2000, 0, 0, FALSE),
      Marble(2490, 60, 0, 300, 0, 0, FALSE),
      Marble(2510, 50, 100, -600, 50, 0, FALSE),
      Marble(-1000, 45, 700, 0, 0, 0, FALSE),
      Marble(1000, 80, 1000, -300, -20, 400, TRUE),
      Marble(1000, 200, 0, 800, -1500, 0, FALSE),
      Marble(0, 800, 0, 0, -3000, 100, FALSE),
      Marble(0, -600, 0, 0, -1000, 0, FALSE),
      Marble(NaN, NaN, NaN, NaN, NaN, NaN, FALSE) }

\* position.y, position.distanceTo(origin) and velocity.length()
BodyView(b) ==
    IF ~b.present \/ b.y = NaN
      THEN [y |-> NaN, dist |-> NaN, horiz |-> NaN, speed |-> NaN,
            hits |-> 0]
      ELSE [y |-> b.y,
            dist |-> ISqrt(b.x * b.x + b.y * b.y + b.z * b.z),
            horiz |-> ISqrt(b.x * b.x + b.z * b.z),
            speed |-> ISqrt(b.vx * b.vx + b.vy * b.vy + b.vz * b.vz),
            hits |-> 0]

\* Player.update, 100 ms check: 5% off the horizontal velocity after a recent
\* obstacle collision
AfterImpact(b) ==
    IF b.y # NaN /\ b.hit /\ b.vx * b.vx + b.vz * b.vz > 200 * 200
      THEN [b EXCEPT !.vx = MulDiv(b.vx, 95, 100), !.vz = MulDiv(b.vz, 95, 100)]
      ELSE b

\* Player.update, sampling in the direction of travel: the height difference
\* forwardHeight - terrainHeight, in um
HeightDiff(b, g) ==
    LET hs == ISqrt(b.vx * b.vx + b.vz * b.vz)
    IN  HeightAt(g, b.x + (b.vx * sampleDistance) \div hs,
                    b.z + (b.vz * sampleDistance) \div hs)
        - HeightAt(g, b.x, b.z)

\* if (horizSpeed > 0.01) ... if (heightDiff > 0.001)
Uphill(moving, diff) == moving /\ diff > 1000

\* Player.update, the velocity after the direction-of-travel block
AfterTravel(b, g) ==
    LET moving == b.vx * b.vx + b.vz * b.vz > 10 * 10
        diff == IF moving THEN HeightDiff(b, g) ELSE 0
        steep == Min(30000, diff) \div 30
        resistance == 10000 - (steep * steep * 7) \div 10000
        boosted == b.vy < 100 /\ b.vx * b.vx + b.vz * b.vz > 500 * 500
        boost == IF Uphill(moving, diff) /\ boosted
                   THEN Min(50, (diff * 5) \div 1000) ELSE 0
        up == IF Uphill(moving, diff)
                THEN [b EXCEPT !.vx = MulDiv(b.vx, resistance, 10000),
                               !.vz = MulDiv(b.vz, resistance, 10000),
                               !.vy = b.vy + boost]
                ELSE b
    IN  [body |-> IF moving
                    THEN [up EXCEPT !.vx = MulDiv(up.vx, 998, 1000),
                                    !.vz = MulDiv(up.vz, 998, 1000)]
                    ELSE b,
         moving |-> moving,
         uphill |-> Uphill(moving, diff),
         boost |-> boost]

\* Player.update, rolling when almost stopped: the velocity added, in um/s
Roll(b, g) ==
    LET dx == HeightAt(g, b.x + sampleDistance, b.z)
              - HeightAt(g, b.x - sampleDistance, b.z)
        dz == HeightAt(g, b.x, b.z + sampleDistance)
              - HeightAt(g, b.x, b.z - sampleDistance)
        slow == b.vx * b.vx + b.vy * b.vy + b.vz * b.vz < 500 * 500
                /\ b.y < 100
    IN  IF slow /\ (Abs(dx) > 3000 \/ Abs(dz) > 3000)
          THEN [x |-> -(dx \div 3), z |-> -(dz \div 3)]
          ELSE [x |-> 0, z |-> 0]

\* Player.update, "continuous terrain interaction": the body it leaves and
\* what it did
TerrainInteraction(b, g) ==
    IF Lt(b.y, 500)
      THEN LET t == AfterTravel(b, g)
               roll == Roll(t.body, g)
           IN  [body |-> [t.body EXCEPT !.vx = @ + roll.x \div 1000,
                                        !.vz = @ + roll.z \div 1000],
                post |-> [ran |-> TRUE, at |-> [x |-> b.x, z |-> b.z],
                          vy |-> b.vy,
                          horizSq |-> b.vx * b.vx + b.vz * b.vz,
                          moving |-> t.moving, uphill |-> t.uphill,
                          boost |-> t.boost, roll |-> roll]]
      ELSE [body |-> b, post |-> [ran |-> FALSE]]

FrameCalls_RenderFirst == <<"step", "render", "player">>

\* The calls of one frame in the order gameLoop and update make them:
\* world.step, player.update, renderer.render
FrameCalls == <<"step", "player", "render">>

\* where control goes after the call c: the next call, or out of gameLoop
CallAfter(c) ==
    LET i == CHOOSE k \in 1..Len(FrameCalls) : FrameCalls[k] = c
    IN  IF i = Len(FrameCalls) THEN "raf" ELSE FrameCalls[i + 1]

Requested_Dropped(p) == p + 0

\* requestAnimationFrame(this.gameLoop.bind(this)) with p invocations due
Requested(p) == p + 1

\* Game.gameLoop up to the call of update: the invocation that is due runs,
\* requests the next animation frame and enters the try block
AnimationFrame ==
    /\ loopPc = "raf"
    /\ pending > 0
    /\ pending' = Requested(pending - 1)
    /\ UNCHANGED thrown
    /\ \E e \in SubTick :
          deltaTime' = (now - lastFrameTime) * UnitsPerMs + e
    /\ lastFrameTime' = now
    /\ frameLog' = <<>>
    /\ loopPc' = FrameCalls[1]
    /\ UNCHANGED <<stepCall, accumulator, marbleBody, surface, post>>
    /\ UNCHANGED <<startPc, page, errorElements, gameObj, mobileControls>>
    /\ UNCHANGED <<playerVars, placeVars, buildVars, synthVars, elevVars, touch,
                   condorVars>>

\* Game.update: the clamp and world.step
WorldStep ==
    /\ loopPc = "step"
    /\ LET elapsed == CappedDelta(deltaTime)
           n == SubSteps(accumulator, elapsed)
       IN  /\ stepCall' = [called |-> TRUE, fixed |-> fixedTimeStep,
                           elapsed |-> elapsed, maxSub |-> maxSubSteps,
                           subSteps |-> n]
           /\ accumulator' = IF elapsed = 0 THEN accumulator
                             ELSE accumulator + elapsed - n * fixedTimeStep
    /\ marbleBody' \in (IF activeMarble.active THEN LoopBodies ELSE {[present |-> FALSE]})
    /\ frameLog' = Append(frameLog, "step")
    /\ loopPc' = CallAfter("step")
    /\ UNCHANGED <<lastFrameTime, deltaTime, surface, post>>
    /\ UNCHANGED <<pending, thrown>>
    /\ UNCHANGED <<startPc, page, errorElements, gameObj, mobileControls>>
    /\ UNCHANGED <<playerVars, placeVars, buildVars, synthVars, elevVars, touch,
                   condorVars>>

\* Game.update: this.player.update(cappedDelta)
LoopUpdate ==
    /\ loopPc = "player"
    /\ LET due == activeMarble.active
                  /\ now - activeMarble.lastCheckTime > CheckIntervalMs
           b == IF due THEN AfterImpact(marbleBody) ELSE marbleBody
       IN  /\ PlayerUpdate(BodyView(b))
           /\ IF activeMarble.active /\ activeMarble'.active
                THEN LET r == TerrainInteraction(b, surface)
                     IN  marbleBody' = r.body /\ post' = r.post
                ELSE marbleBody' = [present |-> FALSE] /\ post' = [ran |-> FALSE]
    /\ frameLog' = Append(frameLog, "player")
    /\ loopPc' = CallAfter("player")
    /\ UNCHANGED <<lastFrameTime, deltaTime, stepCall, accumulator, surface>>
    /\ UNCHANGED <<pending, thrown>>
    /\ UNCHANGED <<startPc, page, errorElements, gameObj, mobileControls>>
    /\ UNCHANGED <<now, remainingMarbles, isCharging, chargeStartTime, timers,
                   throwCount>>
    /\ UNCHANGED <<placeVars, buildVars, synthVars, elevVars, touch,
                   condorVars>>

\* Game.gameLoop: this.renderer.render(this.scene, this.camera)
Render ==
    /\ loopPc = "render"
    /\ frameLog' = Append(frameLog, "render")
    /\ loopPc' = CallAfter("render")
    /\ UNCHANGED <<lastFrameTime, deltaTime, stepCall, accumulator, marbleBody,
                   surface, post>>
    /\ UNCHANGED <<pending, thrown>>
    /\ UNCHANGED <<startPc, page, errorElements, gameObj, mobileControls>>
    /\ UNCHANGED <<playerVars, placeVars, buildVars, synthVars, elevVars, touch,
                   condorVars>>

\* Game.update: world.step throws; the catch of update logs, the rest of
\* update (Player.update in it) is skipped and gameLoop goes on to render
StepThrows ==
    /\ loopPc = "step"
    /\ thrown' = "step"
    /\ frameLog' = Append(frameLog, "step")
    /\ loopPc' = "render"
    /\ UNCHANGED <<lastFrameTime, deltaTime, stepCall, accumulator, marbleBody,
                   surface, post, pending>>
    /\ UNCHANGED <<startPc, page, errorElements, gameObj, mobileControls>>
    /\ UNCHANGED <<playerVars, placeVars, buildVars, synthVars, elevVars, touch,
                   condorVars>>

\* Game.gameLoop: renderer.render throws; the catch of gameLoop logs and
\* gameLoop returns
RenderThrows ==
    /\ loopPc = "render"
    /\ thrown' = "render"
    /\ frameLog' = Append(frameLog, "render")
    /\ loopPc' = "raf"
    /\ UNCHANGED <<lastFrameTime, deltaTime, stepCall, accumulator, marbleBody,
                   surface, post, pending>>
    /\ UNCHANGED <<startPc, page, errorElements, gameObj, mobileControls>>
    /\ UNCHANGED <<playerVars, placeVars, buildVars, synthVars, elevVars, touch,
                   condorVars>>

\* An event handler or the passing of time, which only happens between the
\* animation frames
BetweenFrames(A) == loopPc = "raf" /\ A

\* Game.init at this.gameLoop(): terrain and player are built
InitLoop ==
    /\ InitPlayer
    /\ CondorIdle
    /\ InitPlace
    /\ BuildIdle
    /\ SynthIdle
    /\ startPc = "done"
    /\ page = GoodPage
    /\ errorElements = 0
    /\ gameObj = [created |-> TRUE, terrain |-> TRUE, player |-> TRUE]
    /\ mobileControls = FALSE
    /\ ElevIdle
    /\ loopPc = "raf"
    /\ lastFrameTime = 0
    /\ deltaTime = 0
    /\ stepCall = [called |-> FALSE]
    /\ accumulator = 0
    /\ marbleBody = [present |-> FALSE]
    /\ surface \in Surfaces
    /\ post = [ran |-> FALSE]
    /\ frameLog = <<>>
    /\ pending = 1
    /\ thrown = "none"

NextLoop ==
    \/ AnimationFrame
    \/ WorldStep
    \/ LoopUpdate
    \/ Render
    \/ BetweenFrames(KeyDownSpace)
    \/ BetweenFrames(KeyUpSpace)
    \/ BetweenFrames(now < LoopMaxTime /\ Tick)

SpecLoop == InitLoop /\ [][NextLoop]_vars

\* the game loop on level ground, with calls that throw
InitFrame == InitLoop /\ surface = [level |-> 0, slopeX |-> 0, slopeZ |-> 0]

NextFrame ==
    \/ NextLoop
    \/ StepThrows
    \/ RenderThrows

SpecFrame == InitFrame /\ [][NextFrame]_vars

-----------------------------------------------------------------------------
(* Start-up: the DOMContentLoaded handler (startGame) and Game.init *)

\* What the page can be: a library global missing, no WebGL, or a step of
\* Game.init that throws.
Pages ==
    [three : BOOLEAN, cannon : BOOLEAN, webgl : BOOLEAN,
     throwsAt : {"none", "renderer", "terrain", "player", "environment"},
     mobile : BOOLEAN]

AfterCaught_GoesOn(step) == IF step = "objects" THEN "ui" ELSE "constructed"

\* Game.init after one of its catch blocks: the inner one returns, the outer
\* one is the end of init
AfterCaught(step) == "constructed"

\* startGame: the three checks, each with showError(...) and return
CheckLibraries ==
    /\ startPc = "dom"
    /\ IF page.three /\ page.cannon /\ page.webgl
         THEN /\ startPc' = "construct"
              /\ UNCHANGED errorElements
         ELSE /\ startPc' = "done"
              /\ errorElements' = errorElements + 1
    /\ UNCHANGED <<page, gameObj, mobileControls>>
    /\ UNCHANGED <<loopPc, lastFrameTime, deltaTime, stepCall, accumulator,
                   marbleBody, surface, post, frameLog,
                   pending, thrown>>
    /\ UNCHANGED <<playerVars, placeVars, buildVars, synthVars, elevVars, touch,
                   condorVars>>

\* new Game(): the constructor and Game.init up to createLighting
SetUpScene ==
    /\ startPc = "construct"
    /\ gameObj' = [gameObj EXCEPT !.created = TRUE]
    /\ IF page.throwsAt = "renderer"
         THEN /\ errorElements' = errorElements + 1
              /\ startPc' = AfterCaught("construct")
         ELSE /\ startPc' = "objects"
              /\ UNCHANGED errorElements
    /\ UNCHANGED <<page, mobileControls>>
    /\ UNCHANGED <<loopPc, lastFrameTime, deltaTime, stepCall, accumulator,
                   marbleBody, surface, post, frameLog,
                   pending, thrown>>
    /\ UNCHANGED <<playerVars, placeVars, buildVars, synthVars, elevVars, touch,
                   condorVars>>

\* Game.init: new Terrain(...), new Player(...) in the inner try
CreateGameObjects ==
    /\ startPc = "objects"
    /\ IF page.throwsAt \in {"terrain", "player"}
         THEN /\ gameObj' = [gameObj EXCEPT
                                !.terrain = (page.throwsAt = "player")]
              /\ errorElements' = errorElements + 1
              /\ startPc' = AfterCaught("objects")
         ELSE /\ gameObj' = [gameObj EXCEPT !.terrain = TRUE, !.player = TRUE]
              /\ startPc' = "ui"
              /\ UNCHANGED errorElements
    /\ UNCHANGED <<page, mobileControls>>
    /\ UNCHANGED <<loopPc, lastFrameTime, deltaTime, stepCall, accumulator,
                   marbleBody, surface, post, frameLog,
                   pending, thrown>>
    /\ UNCHANGED <<playerVars, placeVars, buildVars, synthVars, elevVars, touch,
                   condorVars>>

\* Game.init: createUI, createSkyAndEnvironment, then the first gameLoop()
StartLoop ==
    /\ startPc = "ui"
    /\ IF page.throwsAt = "environment"
         THEN /\ errorElements' = errorElements + 1
              /\ startPc' = AfterCaught("ui")
              /\ UNCHANGED <<loopPc, lastFrameTime, pending>>
         ELSE /\ lastFrameTime' = now
              /\ loopPc' = "raf"
              /\ pending' = 1
              /\ startPc' = "constructed"
              /\ UNCHANGED errorElements
    /\ UNCHANGED <<page, gameObj, mobileControls>>
    /\ UNCHANGED <<deltaTime, stepCall, accumulator, marbleBody, surface, post,
                   frameLog, thrown>>
    /\ UNCHANGED <<playerVars, placeVars, buildVars, synthVars, elevVars, touch,
                   condorVars>>

\* startGame after new Game(): window.game, setupMobileControls, the loading
\* message is hidden
FinishStart ==
    /\ startPc = "constructed"
    /\ startPc' = "done"
    /\ mobileControls' = page.mobile
    /\ UNCHANGED <<page, errorElements, gameObj>>
    /\ UNCHANGED <<loopPc, lastFrameTime, deltaTime, stepCall, accumulator,
                   marbleBody, surface, post, frameLog,
                   pending, thrown>>
    /\ UNCHANGED <<playerVars, placeVars, buildVars, synthVars, elevVars, touch,
                   condorVars>>

\* DOMContentLoaded
InitStart ==
    /\ InitPlayer
    /\ CondorIdle
    /\ InitPlace
    /\ BuildIdle
    /\ SynthIdle
    /\ startPc = "dom"
    /\ page \in Pages
    /\ errorElements = 0
    /\ gameObj = [created |-> FALSE, terrain |-> FALSE, player |-> FALSE]
    /\ mobileControls = FALSE
    /\ ElevIdle
    /\ loopPc = "idle"
    /\ lastFrameTime = 0
    /\ deltaTime = 0
    /\ stepCall = [called |-> FALSE]
    /\ accumulator = 0
    /\ marbleBody = [present |-> FALSE]
    /\ surface = [level |-> 0, slopeX |-> 0, slopeZ |-> 0]
    /\ post = [ran |-> FALSE]
    /\ frameLog = <<>>
    /\ pending = 0
    /\ thrown = "none"

NextStart ==
    \/ CheckLibraries
    \/ SetUpScene
    \/ CreateGameObjects
    \/ StartLoop
    \/ FinishStart

SpecStart == InitStart /\ [][NextStart]_vars

-----------------------------------------------------------------------------
(* The elevation service: fetchElevationData, loadHeightmapFromImage,
   generateSyntheticHeightmap and enhanceHeightmap.  One sample of the array
   is followed; elevations are in 1e-4, geographic degrees in 1e-4. *)

HEIGHTMAP_WIDTH == 256
HEIGHTMAP_HEIGHT == 256
MAX_ELEVATION == 6300
influenceRadius == 15
BoundsNorth == -5000
BoundsSouth == -25000
BoundsWest == -795000
BoundsEast == -775000

MAJOR_PEAKS ==
    << [lat |-> -14697, lng |-> -788169, elevation |-> 6263],
       [lat |-> -6837,  lng |-> -784370, elevation |-> 5897],
       [lat |-> 292,    lng |-> -779861, elevation |-> 5790],
       [lat |-> -4811,  lng |-> -781417, elevation |-> 5704],
       [lat |-> -16667, lng |-> -784167, elevation |-> 5320] >>

\* Math.cos of an angle given in thousandths of a radian
Cos(m) == Sin(m + 1571)

Clamp01_Open(v) == Max(v, v)

\* Math.max(0, Math.min(1, v))
Clamp01(v) == Max(0, Min(10000, v))

\* generateSyntheticHeightmap: the sample at column x, row y
generateSyntheticHeightmap(x, y) ==
    LET cx == HEIGHTMAP_WIDTH \div 2
        cy == HEIGHTMAP_HEIGHT \div 2
        peakRadius10 == (HEIGHTMAP_WIDTH * 15) \div 10
        dist10 == Sqrt(100 * ((x - cx) * (x - cx) + (y - cy) * (y - cy)))
        pf == ((peakRadius10 - dist10) * 10000) \div peakRadius10
        e1 == IF dist10 < peakRadius10 THEN Max(500, (pf * pf) \div 10000)
              ELSE 500
        ridgeWidth10 == 2 * HEIGHTMAP_WIDTH
        dr10 == Abs(10 * x - 7 * HEIGHTMAP_WIDTH)
        rf == ((ridgeWidth10 - dr10) * 10000) \div ridgeWidth10
        ridge == (3 * ((rf * rf) \div 10000)) \div 10
                 + Sin(100 * y) + Cos(50 * y)
        e2 == IF dr10 < ridgeWidth10 THEN Max(e1, ridge) ELSE e1
        wave == ((Sin(500 * x) * Cos(500 * y)) \div 1000
                 + Sin(100 * x + 100 * y)) \div 2
    IN  Clamp01(e2 + wave)

\* enhanceHeightmap, the forEach over MAJOR_PEAKS from peak k on: the sample
\* (x, y) holding v
RECURSIVE WithPeaks(_, _, _, _)
WithPeaks(v, x, y, k) ==
    IF k > Len(MAJOR_PEAKS) THEN v
    ELSE LET peak == MAJOR_PEAKS[k]
             inBounds == /\ peak.lat <= BoundsNorth /\ peak.lat >= BoundsSouth
                         /\ peak.lng >= BoundsWest /\ peak.lng <= BoundsEast
             py == ((BoundsNorth - peak.lat) * HEIGHTMAP_HEIGHT)
                   \div (BoundsNorth - BoundsSouth)
             px == ((peak.lng - BoundsWest) * HEIGHTMAP_WIDTH)
                   \div (BoundsEast - BoundsWest)
             d2 == (x - px) * (x - px) + (y - py) * (y - py)
             inWindow == /\ x >= px - influenceRadius /\ x < px + influenceRadius
                         /\ y >= py - influenceRadius /\ y < py + influenceRadius
                         /\ d2 < influenceRadius * influenceRadius
             peakElevation == (peak.elevation * 10000) \div MAX_ELEVATION
             influence == Exp(-((d2 * 10000 * 9)
                                \div (2 * influenceRadius * influenceRadius)))
             blend == (v * (10000 - influence) + peakElevation * influence)
                      \div 10000
         IN  WithPeaks(IF inBounds /\ inWindow THEN Max(v, blend) ELSE v,
                       x, y, k + 1)

\* enhanceHeightmap: the sample (x, y) of the array it returns
enhanceHeightmap(v, x, y) ==
    LET wave == ((Sin(300 * x) * Cos(400 * y)) \div 1000
                 + Sin(100 * x + 200 * y)) \div 10
    IN  Clamp01(WithPeaks(v, x, y, 1) + wave)

FullArray(v, synthetic) ==
    [length |-> HEIGHTMAP_WIDTH * HEIGHTMAP_HEIGHT, value |-> v,
     synthetic |-> synthetic]

\* fetchElevationData calls loadHeightmapFromImage: the promise executor
\* creates the image, or throws and the promise is rejected
LoadHeightmap ==
    /\ elevPc = "call"
    /\ elevPc' = IF image.outcome = "throws" THEN "caught" ELSE "loading"
    /\ UNCHANGED <<image, elevData, fetchResult>>
    /\ UNCHANGED <<playerVars, placeVars, buildVars, synthVars, loopVars, touch,
                   condorVars>>

\* img.onload resolves with the red channel / 255, img.onerror with the
\* synthetic heightmap
ImageSettles ==
    /\ elevPc = "loading"
    /\ elevData' =
          IF image.outcome = "load"
            THEN FullArray((image.red * 10000) \div 255, FALSE)
            ELSE FullArray(generateSyntheticHeightmap(image.x, image.y), TRUE)
    /\ elevPc' = "enhance"
    /\ UNCHANGED <<image, fetchResult>>
    /\ UNCHANGED <<playerVars, placeVars, buildVars, synthVars, loopVars, touch,
                   condorVars>>

\* the catch of fetchElevationData
FallBack ==
    /\ elevPc = "caught"
    /\ elevData' = FullArray(generateSyntheticHeightmap(image.x, image.y), TRUE)
    /\ elevPc' = "enhance"
    /\ UNCHANGED <<image, fetchResult>>
    /\ UNCHANGED <<playerVars, placeVars, buildVars, synthVars, loopVars, touch,
                   condorVars>>

\* return enhanceHeightmap(...): the returned promise is resolved
Enhance ==
    /\ elevPc = "enhance"
    /\ LET e == FullArray(enhanceHeightmap(elevData.value, image.x, image.y),
                          elevData.synthetic)
       IN  /\ elevData' = e
           /\ fetchResult' = [state |-> "resolved", data |-> e]
    /\ elevPc' = "done"
    /\ UNCHANGED image
    /\ UNCHANGED <<playerVars, placeVars, buildVars, synthVars, loopVars, touch,
                   condorVars>>

\* a call of fetchElevationData; the samples followed lie at the corners, on
\* and beside the peaks, on the synthetic peak and on the synthetic ridge
InitElev ==
    /\ InitPlayer
    /\ CondorIdle
    /\ InitPlace
    /\ BuildIdle
    /\ SynthIdle
    /\ loopPc = "idle"
    /\ lastFrameTime = 0
    /\ deltaTime = 0
    /\ stepCall = [called |-> FALSE]
    /\ accumulator = 0
    /\ marbleBody = [present |-> FALSE]
    /\ surface = [level |-> 0, slopeX |-> 0, slopeZ |-> 0]
    /\ post = [ran |-> FALSE]
    /\ frameLog = <<>>
    /\ pending = 0
    /\ thrown = "none"
    /\ startPc = "dom"
    /\ page = GoodPage
    /\ errorElements = 0
    /\ gameObj = [created |-> FALSE, terrain |-> FALSE, player |-> FALSE]
    /\ mobileControls = FALSE
    /\ elevPc = "call"
    /\ \E o \in {"load", "error", "throws"}, r \in {0, 128, 255},
          p \in { <<0, 0>>, <<255, 255>>, <<87, 124>>, <<95, 120>>,
                  <<136, 23>>, <<138, 149>>, <<128, 128>>, <<179, 16>>,
                  <<16, 47>>, <<5, 235>> } :
          image = [outcome |-> o, x |-> p[1], y |-> p[2], red |-> r]
    /\ elevData = [length |-> 0, value |-> 0, synthetic |-> FALSE]
    /\ fetchResult = [state |-> "pending"]

NextElev ==
    \/ LoadHeightmap
    \/ ImageSettles
    \/ FallBack
    \/ Enhance

SpecElev == InitElev /\ [][NextElev]_vars

-----------------------------------------------------------------------------
(* The THROW button with the finger followed *)

\* touchstart listener of createMobileButton: preventDefault and the callback
TouchStart ==
    /\ ~touch.held
    /\ touch' = [held |-> TRUE, began |-> CanStartCharge, count |-> throwCount]
    /\ ThrowButtonCallback

\* touchend listener of createMobileButton: preventDefault only
TouchEnd ==
    /\ touch.held
    /\ touch' = [touch EXCEPT !.held = FALSE]
    /\ UNCHANGED <<playerVars, placeVars, buildVars, synthVars, loopVars,
                   elevVars, condorVars>>

NextTouch ==
    \/ TouchStart
    \/ TouchEnd
    \/ ThrowTimerFires
    \/ Frame
    \/ Tick

\* the player on a touch screen
SpecTouch == Init /\ [][NextTouch]_vars

-----------------------------------------------------------------------------
(* Scoring: the collide handler of createActiveMarble and the score of       *)
(* Player.update, with the body of each frame kept in marbleBody             *)

MaxCollisions == 1
ScoreTickMs == 8000

\* What world.step can leave in the marble body, as BodyStates: at rest in
\* each ring and on the edge of the outer one, slowing down, rolling, with
\* and without an obstacle collision counted in the step, fallen, far away
ScoreBodies ==
    { [y |-> 50,   dist |-> 112,  horiz |-> 100,  speed |-> 50,   hits |-> 0],
      [y |-> 50,   dist |-> 112,  horiz |-> 100,  speed |-> 50,   hits |-> 1],
      [y |-> 50,   dist |-> 206,  horiz |-> 200,  speed |-> 50,   hits |-> 0],
      [y |-> 50,   dist |-> 403,  horiz |-> 400,  speed |-> 50,   hits |-> 0],
      [y |-> 50,   dist |-> 453,  horiz |-> 450,  speed |-> 50,   hits |-> 0],
      [y |-> 50,   dist |-> 206,  horiz |-> 200,  speed |-> 150,  hits |-> 0],
      [y |-> 50,   dist |-> 1001, horiz |-> 1000, speed |-> 1000, hits |-> 1],
      [y |-> -600, dist |-> 608,  horiz |-> 100,  speed |-> 1000, hits |-> 1],
      [y |-> 50,   dist |-> 6000, horiz |-> 5999, speed |-> 1000, hits |-> 0] }

\* one animation frame: world.step, whose collide events count the obstacle
\* collisions, then Player.update
ScoreFrame ==
    /\ \E b \in (IF activeMarble.active THEN ScoreBodies
                 ELSE {BodyView([present |-> FALSE])}) :
          /\ activeMarble.userCollisions + b.hits <= MaxCollisions
          /\ marbleBody' = b
          /\ PlayerUpdate(b)
    /\ UNCHANGED <<now, remainingMarbles, isCharging, chargeStartTime, timers,
                   throwCount>>
    /\ UNCHANGED <<loopPc, lastFrameTime, deltaTime, stepCall, accumulator,
                   surface, post, frameLog, pending, thrown>>
    /\ UNCHANGED <<startPc, page, errorElements, gameObj, mobileControls>>
    /\ UNCHANGED <<placeVars, buildVars, synthVars, elevVars, touch,
                   condorVars>>

\* Game.init at this.gameLoop(), on level ground
InitScore ==
    /\ InitLoop
    /\ surface = [level |-> 0, slopeX |-> 0, slopeZ |-> 0]

\* the clock advances between two frames
ScoreTick ==
    /\ now + ScoreTickMs <= MaxTime
    /\ now' = now + ScoreTickMs
    /\ UNCHANGED <<remainingMarbles, isCharging, chargeStartTime, throwPower,
                   activeMarble, marbleBodies, timers, throwCount,
                   lastUpdateAt, lastRemoval, updateThrew, totalScore>>
    /\ UNCHANGED <<placeVars, buildVars, synthVars, loopVars, elevVars, touch,
                   condorVars>>

NextScore ==
    \/ KeyDownSpace
    \/ KeyUpSpace
    \/ ScoreFrame
    \/ ScoreTick

SpecScore == InitScore /\ [][NextScore]_vars

-----------------------------------------------------------------------------
(* The condor world: FlightControls, CameraController and the camera toggle  *)
(* button of UIManager.  Lengths in 1e-4, angles in thousandths of a radian. *)

MaxFlightUpdates == 3
MaxTurn == 400

FlightKeys == {"ArrowUp", "ArrowDown", "ArrowLeft", "ArrowRight", "w", "s"}

\* the keys pressed while flying, and those pressed for the camera
FlownKeys == {"ArrowUp", "ArrowLeft", "w", "s"}
CameraKeys == {"f", "c", "w"}

heightScale == 400
terrainWidth == 20000000
MinClearance == 60000

\* Terrain.heightData at a heightmap cell, in 1e-4: values of [0, 1]
HeightData(t, cx, cz) ==
    IF t = "plain" THEN 4500
    ELSE IF t = "ridge" THEN (IF cz <= 127 THEN 5000 ELSE 4500)
    ELSE 10000

Terrains == {"plain", "ridge", "peak"}

\* Math.floor((x / terrainWidth + 0.5) * HEIGHTMAP_WIDTH)
HeightmapIndex(x) ==
    ((x + terrainWidth \div 2) * 8) \div ((terrainWidth * 8) \div HEIGHTMAP_WIDTH)

\* Terrain.getHeightAtPosition
getHeightAtPosition(t, x, z) ==
    LET cx == HeightmapIndex(x)
        cz == HeightmapIndex(z)
    IN  IF cx < 0 \/ cx >= HEIGHTMAP_WIDTH \/ cz < 0 \/ cz >= HEIGHTMAP_HEIGHT
          THEN 0
          ELSE HeightData(t, cx, cz) * heightScale

\* a product of a number with a factor given in hundredths or thousandths,
\* rounded towards zero
Scaled(v, num, den) ==
    IF v >= 0 THEN (v * num) \div den ELSE -(((-v) * num) \div den)

\* Condor.updatePitch: rotation.x after it
updatePitch(pitch, verticalSpeed) ==
    LET targetPitch == Scaled(-verticalSpeed * 4, 1, 10)
    IN  IF Abs(targetPitch - pitch) > 10
          THEN Max(Min(IF targetPitch > pitch THEN pitch + 50 ELSE pitch - 50,
                       400), -400)
          ELSE pitch

\* new Vector3(0, 0, -1).applyQuaternion(condor.quaternion), the rotation
\* being Rx(pitch) Ry(rotY), multiplied by the speed
Direction(rotY, pitch, speed) ==
    [x |-> Scaled(-Sin(rotY), speed, 1000),
     y |-> Scaled(Scaled(Cos(rotY), Sin(pitch), 1000), speed, 1000),
     z |-> Scaled(Scaled(-Cos(rotY), Cos(pitch), 1000), speed, 1000)]

Floor_Absent(y, minAltitude) == Max(y, y)

\* if (position.y < minAltitude) position.y = minAltitude
Floor(y, minAltitude) == IF y < minAltitude THEN minAltitude ELSE y

\* FlightControls.onKeyDown and CameraController.onKeyDown, both listeners of
\* keydown on window
OnKeyDown(k) ==
    /\ keys' = IF camera.created /\ k \in FlightKeys THEN keys \cup {k}
               ELSE keys
    /\ IF camera.created /\ k = "c"
         THEN camera' = [camera EXCEPT !.enableMouseControl = ~@]
       ELSE IF camera.created /\ k = "f"
         THEN LET free == ~camera.freeCamera
              IN  camera' = [camera EXCEPT
                                !.freeCamera = free,
                                !.enabled = free,
                                !.help = IF free THEN "shown"
                                         ELSE IF @ = "none" THEN "none"
                                         ELSE "hidden"]
         ELSE UNCHANGED camera

\* a key goes down
KeyDown(k) ==
    /\ OnKeyDown(k)
    /\ UNCHANGED <<condor, flightState, terrainMap, flown, buttonLabel>>
    /\ UNCHANGED <<playerVars, placeVars, buildVars, synthVars, loopVars,
                   elevVars, touch>>

\* FlightControls.onKeyUp
KeyUp ==
    /\ \E k \in keys : keys' = keys \ {k}
    /\ UNCHANGED <<condor, flightState, terrainMap, flown, camera, buttonLabel>>
    /\ UNCHANGED <<playerVars, placeVars, buildVars, synthVars, loopVars,
                   elevVars, touch>>

\* FlightControls.update, called by Game.animate
FlightUpdate ==
    /\ flown.updates < MaxFlightUpdates
    /\ LET up == IF "ArrowUp" \in keys
                   THEN Min(flightState.speed + 100, 3000)
                   ELSE flightState.speed
           speed == IF "ArrowDown" \in keys THEN Max(up - 100, 500) ELSE up
           rotY == condor.rotY
                   + (IF "ArrowLeft" \in keys THEN 30 ELSE 0)
                   - (IF "ArrowRight" \in keys THEN 30 ELSE 0)
           vs == IF "w" \in keys
                   THEN Min(flightState.verticalSpeed + 50, 1000)
                 ELSE IF "s" \in keys
                   THEN Max(flightState.verticalSpeed - 50, -1000)
                 ELSE Scaled(flightState.verticalSpeed, 95, 100)
           pitch == updatePitch(condor.pitch, vs)
           dir == Direction(rotY, pitch, speed)
           x == condor.x + dir.x
           z == condor.z + dir.z
           y == condor.y + dir.y + vs
           terrainHeight == getHeightAtPosition(terrainMap, x, z)
           minAltitude == terrainHeight + MinClearance
           floored == y < minAltitude
       IN  /\ condor' = [x |-> x, y |-> Floor(y, minAltitude), z |-> z,
                         rotY |-> rotY, pitch |-> pitch]
           /\ flightState' = [speed |-> speed,
                              verticalSpeed |-> IF floored THEN 0 ELSE vs]
           /\ flown' = [updates |-> flown.updates + 1, floored |-> floored,
                        terrainHeight |-> terrainHeight,
                        elevation |-> Floor(y, minAltitude) - terrainHeight]
    /\ UNCHANGED <<keys, terrainMap, camera, buttonLabel>>
    /\ UNCHANGED <<playerVars, placeVars, buildVars, synthVars, loopVars,
                   elevVars, touch>>

\* Game.initWorld at this.animate(): terrain, condor and controls exist
WorldReady ==
    /\ condor = [x |-> 0, y |-> 2000000, z |-> 0, rotY |-> 0, pitch |-> 0]
    /\ flightState = [speed |-> 1000, verticalSpeed |-> 0]
    /\ keys = {}
    /\ flown = [updates |-> 0, floored |-> FALSE, terrainHeight |-> 0,
                elevation |-> 0]
    /\ camera = [created |-> TRUE, freeCamera |-> FALSE,
                 enableMouseControl |-> TRUE, enabled |-> FALSE,
                 isMouseDown |-> FALSE, help |-> "none"]
    /\ buttonLabel = "Free Camera: OFF"

InitFlight ==
    /\ InitPlayer /\ InitPlace /\ BuildIdle /\ SynthIdle /\ LoopIdle
    /\ WorldReady
    /\ terrainMap \in Terrains

NextFlight ==
    \/ \E k \in FlownKeys : KeyDown(k)
    \/ KeyUp
    \/ FlightUpdate

SpecFlight == InitFlight /\ [][NextFlight]_vars

\* Game.initWorld: the terrain, the condor, the CameraController and the
\* FlightControls are created
InitWorld ==
    /\ ~camera.created
    /\ camera' = [camera EXCEPT !.created = TRUE]
    /\ UNCHANGED <<condor, flightState, keys, terrainMap, flown, buttonLabel>>
    /\ UNCHANGED <<playerVars, placeVars, buildVars, synthVars, loopVars,
                   elevVars, touch>>

\* the click listener of UIManager.createCameraToggleButton
ClickToggleButton ==
    /\ OnKeyDown("f")
    /\ buttonLabel' = IF buttonLabel = "Free Camera: OFF"
                        THEN "Free Camera: ON"
                        ELSE "Free Camera: OFF"
    /\ UNCHANGED <<condor, flightState, terrainMap, flown>>
    /\ UNCHANGED <<playerVars, placeVars, buildVars, synthVars, loopVars,
                   elevVars, touch>>

\* CameraController.onMouseDown
MouseDown ==
    /\ camera.created
    /\ camera' = [camera EXCEPT
                     !.isMouseDown = IF ~camera.freeCamera THEN TRUE ELSE @]
    /\ UNCHANGED <<condor, flightState, keys, terrainMap, flown, buttonLabel>>
    /\ UNCHANGED <<playerVars, placeVars, buildVars, synthVars, loopVars,
                   elevVars, touch>>

\* CameraController.onMouseUp, onMouseLeave
MouseUp ==
    /\ camera.created
    /\ camera' = [camera EXCEPT !.isMouseDown = FALSE]
    /\ UNCHANGED <<condor, flightState, keys, terrainMap, flown, buttonLabel>>
    /\ UNCHANGED <<playerVars, placeVars, buildVars, synthVars, loopVars,
                   elevVars, touch>>

\* CameraController.onMouseMove, the pointer having moved by deltaX pixels
MouseMove(deltaX) ==
    /\ camera.created
    /\ Abs(condor.rotY - deltaX * 2) <= MaxTurn
    /\ condor' = IF camera.isMouseDown /\ camera.enableMouseControl
                    /\ ~camera.freeCamera
                   THEN [condor EXCEPT !.rotY = @ - deltaX * 2]
                   ELSE condor
    /\ UNCHANGED <<flightState, keys, terrainMap, flown, camera, buttonLabel>>
    /\ UNCHANGED <<playerVars, placeVars, buildVars, synthVars, loopVars,
                   elevVars, touch>>

\* CameraController.update, called by Game.animate
CameraUpdate ==
    /\ camera.created
    /\ camera' = IF camera.freeCamera THEN camera
                 ELSE [camera EXCEPT !.enabled = FALSE]
    /\ UNCHANGED <<condor, flightState, keys, terrainMap, flown, buttonLabel>>
    /\ UNCHANGED <<playerVars, placeVars, buildVars, synthVars, loopVars,
                   elevVars, touch>>

\* new Game(): the UIManager and its button exist, the world is still loading
InitCamera ==
    /\ InitPlayer /\ InitPlace /\ BuildIdle /\ SynthIdle /\ LoopIdle
    /\ CondorIdle

NextCamera ==
    \/ InitWorld
    \/ \E k \in CameraKeys : KeyDown(k)
    \/ KeyUp
    \/ ClickToggleButton
    \/ MouseDown
    \/ MouseUp
    \/ \E deltaX \in {-100, 100} : MouseMove(deltaX)
    \/ CameraUpdate

SpecCamera == InitCamera /\ [][NextCamera]_vars

-----------------------------------------------------------------------------
\* C1: throwMarble runs at most 5 times, every run takes exactly one marble,
\* remainingMarbles is never negative and no charge is in progress or can
\* start once remainingMarbles is 0.
C1_FiveMarbles ==
    /\ throwCount <= InitialMarbles
    /\ remainingMarbles = InitialMarbles - throwCount
    /\ remainingMarbles >= 0
    /\ (remainingMarbles = 0 => ~isCharging /\ ~CanStartCharge)

C1_Witness == remainingMarbles = 0 /\ throwCount = InitialMarbles

\* C2: a marble that is still active has not yet seen a Player.update more
\* than 15 seconds after its creation, and a removed marble has left the
\* physics world: the first such update removes it, whatever the body state.
C2_RemovedByTimeout ==
    /\ activeMarble.active =>
           lastUpdateAt - activeMarble.createdAt <= MaxThrowMs
    /\ marbleBodies = IF activeMarble.active THEN 1 ELSE 0

C2_Witness ==
    /\ lastRemoval = "timeout"
    /\ ~activeMarble.active
    /\ marbleBodies = 0
    /\ lastUpdateAt > MaxThrowMs

\* C5: when no placement loop has given up, every two rocks are at least
\* 0.5 apart, every hill is at least 0.6 from every rock and 0.8 from every
\* other hill, every rock is at least 1.2 x circleRadius and every hill at
\* least 1.3 x circleRadius from the centre.
C5_Clearances ==
    ~exhausted =>
      /\ \A i, j \in 1..Len(rockPositions) : i # j =>
             Dist(rockPositions[i].x - rockPositions[j].x,
                  rockPositions[i].z - rockPositions[j].z) >= RockRockGap
      /\ \A i \in 1..Len(hillPositions), j \in 1..Len(rockPositions) :
             Dist(hillPositions[i].x - rockPositions[j].x,
                  hillPositions[i].z - rockPositions[j].z) >= HillRockGap
      /\ \A i, j \in 1..Len(hillPositions) : i # j =>
             Dist(hillPositions[i].x - hillPositions[j].x,
                  hillPositions[i].z - hillPositions[j].z) >= HillHillGap
      /\ \A i \in 1..Len(rockPositions) :
             10 * Dist(rockPositions[i].x, rockPositions[i].z) >= 12 * circleRadius
      /\ \A i \in 1..Len(hillPositions) :
             10 * Dist(hillPositions[i].x, hillPositions[i].z) >= 13 * circleRadius

C5_Witness ==
    /\ placePc = "done" /\ ~exhausted
    /\ Len(rockPositions) = largeRockCount /\ largeRockCount >= 2
    /\ Len(hillPositions) = hillCount /\ hillCount >= 2

\* C6: a placement loop draws at most 101 candidates and gives up exactly when
\* its counter exceeds 100; what is appended is the candidate drawn last; and
\* the run ends with exactly largeRockCount rocks and hillCount hills.
C6_BoundedPlacement ==
    /\ attempt <= MaxAttempts + 1
    /\ (loopState = "gaveup" => attempt = MaxAttempts + 1)
    /\ Len(rockPositions) <= largeRockCount /\ Len(hillPositions) <= hillCount
    /\ (placePc = "hills" => Len(rockPositions) = largeRockCount)
    /\ (placePc = "done" =>
           /\ Len(rockPositions) = largeRockCount
           /\ Len(hillPositions) = hillCount)
    /\ (attempt = 0 /\ Len(hillPositions) > 0 =>
           hillPositions[Len(hillPositions)] = cand)
    /\ (attempt = 0 /\ Len(hillPositions) = 0 /\ Len(rockPositions) > 0 =>
           rockPositions[Len(rockPositions)] = cand)

C6_Witness ==
    /\ placePc = "done" /\ exhausted
    /\ Len(rockPositions) = largeRockCount /\ Len(hillPositions) = hillCount
    /\ hillPositions[Len(hillPositions)] = [x |-> 0, z |-> 0]

-----------------------------------------------------------------------------
\* C3: when new CANNON.Heightfield throws inside createPhysicsGround, no
\* exception leaves the Terrain constructor, the construction of the Player
\* goes on, and the world holds the backup ground plane body.

HasBody(kind) == \E k \in 1..Len(world.bodies) : world.bodies[k].kind = kind

C3_FallsBackToPlane ==
    heightfieldThrew =>
        /\ ~escaped
        /\ buildPc \in {"rest", "player", "done"}
        /\ HasBody("groundPlane")
        /\ ~HasBody("terrain")

C3_Witness ==
    /\ heightfieldThrew
    /\ buildPc = "done"
    /\ HasBody("groundPlane")
    /\ marbleMaterial # 0

-----------------------------------------------------------------------------
\* C4: after the Terrain and the Player are constructed, for every static
\* body the marble can touch (heightfield, backup ground plane, rock spheres,
\* hill spheres) a registered contact material pairs the material object of
\* that body with the material object of the marble body.

Touchable == {"terrain", "groundPlane", "rock", "hill"}

PairedWithMarble(body) == {body.material, marbleMaterial} \in world.contacts

C4_EveryBodyPaired ==
    buildPc = "done" =>
        \A k \in 1..Len(world.bodies) :
            world.bodies[k].kind \in Touchable
                => PairedWithMarble(world.bodies[k])

\* what the code registers: of the static bodies, the heightfield alone has
\* its material paired with the material of the marble
C4_OnlyHeightfieldPaired ==
    buildPc = "done" =>
        \A k \in 1..Len(world.bodies) :
            PairedWithMarble(world.bodies[k])
                <=> world.bodies[k].kind = "terrain"

C4_Witness ==
    /\ buildPc = "done"
    /\ HasBody("terrain")
    /\ \E k \in 1..Len(world.bodies) :
          /\ world.bodies[k].kind = "rock"
          /\ ~PairedWithMarble(world.bodies[k])
    /\ \E k \in 1..Len(world.bodies) :
          /\ world.bodies[k].kind = "hill"
          /\ ~PairedWithMarble(world.bodies[k])

-----------------------------------------------------------------------------
\* C7 (as stated): the grid of the visual mesh and the grid of the collision
\* heightfield have the same cell size and the same world-space origin.

BothGrids == mesh.built /\ heightfield.built

C7_SameCellAndOrigin ==
    BothGrids =>
        /\ FracEq(mesh.cell, heightfield.cell)
        /\ FracEq(mesh.originX, heightfield.originX)
        /\ FracEq(mesh.originZ, heightfield.originZ)

\* C7 (amended): the two grids have the same origin (-size/2, -size/2) and
\* span the same size x size square; the visual cell is size/(resolution-1),
\* the collision cell is size/(min(128, floor(1.5 resolution))-1), and the
\* two cells are equal exactly when resolution is 128.
C7_SameOriginAndExtent ==
    BothGrids =>
        /\ FracEq(mesh.originX, heightfield.originX)
        /\ FracEq(mesh.originZ, heightfield.originZ)
        /\ FracEq(mesh.originX, Frac(-terrainSize, 2))
        /\ FracEq(mesh.originZ, Frac(-terrainSize, 2))
        /\ FracEq(FracMul(mesh.points - 1, mesh.cell), Frac(terrainSize, 1))
        /\ FracEq(FracMul(heightfield.points - 1, heightfield.cell),
                  Frac(terrainSize, 1))
        /\ FracEq(mesh.cell, Frac(terrainSize, resolution - 1))
        /\ FracEq(heightfield.cell,
                  Frac(terrainSize,
                       Min(128, (3 * resolution) \div 2) - 1))
        /\ (FracEq(mesh.cell, heightfield.cell) <=> resolution = 128)

C7_Witness ==
    /\ BothGrids
    /\ resolution = 64
    /\ terrainSize = 5000
    /\ mesh.points = 64
    /\ heightfield.points = 96
    /\ ~FracEq(mesh.cell, heightfield.cell)

-----------------------------------------------------------------------------
\* C8: for every terrain size and resolution the heightfield body is placed
\* at -((physicsResolution - 1) x elementSize) / 2 on x and on z, which is
\* (-size/2, -size/2), the place of vertex (0, 0) of the centred visual mesh.

C8_HeightfieldOffset ==
    BothGrids =>
        LET span == FracMul(heightfield.points - 1, heightfield.cell)
        IN  /\ FracEq(heightfield.originX, FracHalfNeg(span))
            /\ FracEq(heightfield.originZ, FracHalfNeg(span))
            /\ FracEq(heightfield.originX, Frac(-terrainSize, 2))
            /\ FracEq(heightfield.originZ, Frac(-terrainSize, 2))
            /\ FracEq(heightfield.originX, mesh.originX)
            /\ FracEq(heightfield.originZ, mesh.originZ)

C8_Witness ==
    /\ BothGrids
    /\ terrainSize = 8000
    /\ resolution = 85
    /\ heightfield.points = 127
    /\ heightfield.cell = Frac(8000, 126)
    /\ FracEq(heightfield.originX, Frac(-4000, 1))

-----------------------------------------------------------------------------
\* C9 (as stated): each sample is evaluated in the order base noise, shaping,
\* rock and hill stamping, micro-bumps, so the rock and hill profiles and the
\* micro-bumps lie on top of the shaped elevation at every point, the points
\* inside the centre hole included.

StoredPoint(k) == PointOf(samples[k])

\* the shaped base of a stored sample: shaping applied to the noise alone
ShapedBase(k) ==
    Shape(StoredPoint(k),
          drawsData[k].map + NoiseTerm(StoredPoint(k)),
          drawsData[k].bowl)

\* what was stamped and drawn for a stored sample
StampedOnTop(k) ==
    RockSum(rockPositions, StoredPoint(k))
    + HillSum(hillPositions, StoredPoint(k))
    + drawsData[k].micro + drawsData[k].small

C9_FeaturesOnTopEverywhere ==
    \A k \in 1..Len(heightData) :
        heightData[k] = ShapedBase(k) + StampedOnTop(k)

\* C9 (amended): each sample is evaluated in the order base noise,
\* micro-bumps, small rocks, rock and hill stamping, shaping.  Outside the
\* centre hole the shaping adds to what was accumulated, so the profiles and
\* bumps lie on top of the shaped elevation; inside the centre hole the
\* shaping assigns the elevation, which is exactly
\* -centerHoleDepth (1 - (d / centerHoleRadius)^2) whatever the noise, the
\* bumps and the features there.
C9_ShapingLast ==
    /\ \A k \in 1..Len(heightData) :
          IF InCenterHole(StoredPoint(k))
            THEN heightData[k] = CenterHole(StoredPoint(k))
            ELSE heightData[k] = ShapedBase(k) + StampedOnTop(k)
    /\ synthPc = "microbump" => height = draws.map + NoiseTerm(Sample)
    /\ synthPc = "shape" =>
          height = draws.map + NoiseTerm(Sample) + draws.micro + draws.small
                   + RockSum(rockPositions, Sample)
                   + HillSum(hillPositions, Sample)

C9_Witness ==
    /\ synthPc = "done"
    /\ \E k \in 1..Len(heightData) :
          /\ InCenterHole(StoredPoint(k))
          /\ drawsData[k].micro > 0
          /\ RockSum(rockPositions, StoredPoint(k)) > 0
          /\ heightData[k] = CenterHole(StoredPoint(k))
    /\ \E k \in 1..Len(heightData) :
          /\ ~InCenterHole(StoredPoint(k))
          /\ drawsData[k].micro > 0
          /\ HillSum(hillPositions, StoredPoint(k)) > 0

-----------------------------------------------------------------------------
\* C10: every sample closer to the centre than centerHoleRadius has an
\* elevation less than or equal to the elevation at the hole boundary
\* (distance = centerHoleRadius), in the synthesized heights and in what
\* getHeightAt returns.

OnHoleBoundary(p) == DistSq(p) = centerHoleRadius * centerHoleRadius

C10_HoleBelowBoundary ==
    /\ \A k, m \in 1..Len(heightData) :
          InCenterHole(StoredPoint(k)) /\ OnHoleBoundary(StoredPoint(m))
              => heightData[k] <= heightData[m]
    /\ queried.called /\ InCenterHole(StoredPoint(queried.at)) =>
          \A m \in 1..Len(heightData) :
              OnHoleBoundary(StoredPoint(m)) =>
                  queried.value <= IF queried.hit THEN heightData[m]
                                   ELSE AnalyticHeight(StoredPoint(m))

\* a sample in the hole that lies more than 0.1 above a sample on the
\* boundary, with no rock or hill on the terrain
C10_Witness ==
    /\ synthPc = "done"
    /\ rockPositions = <<>>
    /\ hillPositions = <<>>
    /\ \E k, m \in 1..Len(heightData) :
          /\ InCenterHole(StoredPoint(k))
          /\ OnHoleBoundary(StoredPoint(m))
          /\ heightData[k] > heightData[m] + 100000

-----------------------------------------------------------------------------
\* C11 (as stated): for a rock of size s and height h, the elevation at the
\* rock centre is the base elevation there plus h, and the elevation at
\* distance s from the centre is the base elevation, in the mesh, in the
\* height matrix and in getHeightAt.

Without(list, i) == SubSeq(list, 1, i - 1) \o SubSeq(list, i + 1, Len(list))

\* the elevation a stored sample would have with the rock list rocks
ElevationWith(k, rocks) ==
    IF InCenterHole(StoredPoint(k)) THEN CenterHole(StoredPoint(k))
    ELSE ShapedBase(k) + RockSum(rocks, StoredPoint(k))
         + HillSum(hillPositions, StoredPoint(k))
         + drawsData[k].micro + drawsData[k].small

\* the analytic height of a point with the rock list rocks
AnalyticWith(p, rocks) ==
    HillMax(hillPositions, p, RockMax(rocks, p, AnalyticBase(p)))

AtRockCentre(k, i) == FeatureDistSq(rockPositions[i], StoredPoint(k)) = 0
AtRockEdge(k, i) ==
    FeatureDistSq(rockPositions[i], StoredPoint(k))
        = rockPositions[i].size * rockPositions[i].size

\* the value getHeightAt would have returned without rock i
QueriedWithout(i) ==
    IF queried.hit THEN ElevationWith(queried.at, Without(rockPositions, i))
    ELSE AnalyticWith(StoredPoint(queried.at), Without(rockPositions, i))

C11_RockCentreAndEdge ==
    \A i \in 1..Len(rockPositions) :
        /\ \A k \in 1..Len(heightData) :
              LET base == ElevationWith(k, Without(rockPositions, i))
              IN  /\ AtRockCentre(k, i) =>
                        heightData[k] = base + rockPositions[i].height * 1000
                  /\ AtRockEdge(k, i) => heightData[k] = base
        /\ queried.called =>
              /\ AtRockCentre(queried.at, i) =>
                    queried.value
                        = QueriedWithout(i) + rockPositions[i].height * 1000
              /\ AtRockEdge(queried.at, i) =>
                    queried.value = QueriedWithout(i)

\* C11 (amended): for a rock of size s and height h and a sample outside
\* the centre hole.  Mesh: the rock adds h at its centre and 0 at distance s.
\* Height matrix: the rock reaches to 1.1 s; it adds h at its centre and
\* h sqrt(1 - 1/1.21), about 0.417 h, at distance s.  getHeightAt, analytic
\* path: the value is the maximum of the value without the rock and the
\* profile of the rock, which is h at its centre and 0 at distance s.
C11_RockProfile ==
    \A i \in 1..Len(rockPositions) :
        LET h == rockPositions[i].height * 1000
        IN  /\ \A k \in 1..Len(heightData) :
                  LET added == heightData[k]
                               - ElevationWith(k, Without(rockPositions, i))
                  IN  ~InCenterHole(StoredPoint(k)) =>
                        /\ AtRockCentre(k, i) => added = h
                        /\ AtRockEdge(k, i) /\ synth = "visual" => added = 0
                        /\ AtRockEdge(k, i) /\ synth = "physics" =>
                              100 * added >= 41 * h /\ 100 * added <= 42 * h
            /\ queried.called /\ ~queried.hit
               /\ ~InCenterHole(StoredPoint(queried.at)) =>
                  /\ AtRockCentre(queried.at, i) =>
                        queried.value = Max(QueriedWithout(i), h)
                  /\ AtRockEdge(queried.at, i) =>
                        queried.value = QueriedWithout(i)

C11_Witness ==
    /\ synthPc = "done"
    /\ synth = "physics"
    /\ \E i, j \in 1..Len(rockPositions), k, m \in 1..Len(heightData) :
          /\ AtRockCentre(k, i)
          /\ heightData[k] = ElevationWith(k, Without(rockPositions, i))
                             + rockPositions[i].height * 1000
          /\ AtRockEdge(m, j)
          /\ heightData[m] > ElevationWith(m, Without(rockPositions, j))

-----------------------------------------------------------------------------
\* C12 (as stated): sampling at distance 0 from the centre gives exactly
\* -centerHoleDepth, whatever the noise, the micro-bumps, the heightmap
\* sample and the rocks and hills, in the synthesized height and in the
\* value getHeightAt returns.

AtCentre(k) == DistSq(StoredPoint(k)) = 0

C12_CentreExact ==
    /\ \A k \in 1..Len(heightData) :
          AtCentre(k) => heightData[k] = -centerHoleDepth
    /\ queried.called /\ AtCentre(queried.at) =>
          queried.value = -centerHoleDepth

\* a rock or a hill reaches over the point (in getHeightAt's measure)
FeatureOver(p) ==
    \/ \E i \in 1..Len(rockPositions) :
          Covers(rockPositions[i], p, rockPositions[i].size * 10)
    \/ \E i \in 1..Len(hillPositions) :
          Covers(hillPositions[i], p, hillPositions[i].radius * 10)

\* C12 (amended): the synthesized height of a sample at distance 0 (mesh
\* vertex or height-matrix entry) is exactly -centerHoleDepth, whatever the
\* noise, the micro-bumps, the heightmap sample and the rocks and hills.
\* getHeightAt at distance 0 returns the height of the mesh where its ray
\* meets the mesh; on its analytic path it returns the maximum of
\* -centerHoleDepth and the profiles of the rocks and hills over the centre,
\* which is -centerHoleDepth exactly when no feature lies over the centre.
C12_CentreDepth ==
    /\ \A k \in 1..Len(heightData) :
          AtCentre(k) => heightData[k] = -centerHoleDepth
    /\ queried.called /\ AtCentre(queried.at) =>
          IF queried.hit THEN queried.value = -centerHoleDepth
          ELSE /\ queried.value >= -centerHoleDepth
               /\ queried.value = -centerHoleDepth
                    <=> ~FeatureOver(StoredPoint(queried.at))
               /\ FeatureOver(StoredPoint(queried.at)) => queried.value >= 0

C12_Witness ==
    /\ synthPc = "done"
    /\ \E k \in 1..Len(heightData) :
          /\ AtCentre(k)
          /\ drawsData[k].micro > 0
          /\ drawsData[k].map > 0
          /\ RockSum(rockPositions, StoredPoint(k)) > 0
          /\ HillSum(hillPositions, StoredPoint(k)) > 0
          /\ heightData[k] = -centerHoleDepth
          /\ queried.called /\ queried.at = k /\ queried.hit

-----------------------------------------------------------------------------
\* C13 (as stated): at a point under several rocks and hills the synthesis
\* adds the profile of every feature over it to the elevation, and the
\* analytic path of getHeightAt returns the maximum of the base elevation
\* and the single profiles, not their sum.

\* the profiles, in getHeightAt's measure, of the features over a point
ProfilesOver(p) ==
    { RockProfile(rockPositions[i], p, 10) :
        i \in { j \in 1..Len(rockPositions) :
                  Covers(rockPositions[j], p, rockPositions[j].size * 10) } }
    \cup
    { HillProfile(hillPositions[i], p, 100) :
        i \in { j \in 1..Len(hillPositions) :
                  Covers(hillPositions[j], p, hillPositions[j].radius * 10) } }

\* getHeightAt's analytic value is the greatest of the base and the profiles
QueryIsMaximum ==
    queried.called /\ ~queried.hit =>
        LET p == StoredPoint(queried.at)
            candidates == {AnalyticBase(p)} \cup ProfilesOver(p)
        IN  /\ queried.value \in candidates
            /\ \A v \in candidates : v <= queried.value

\* the elevation of a stored sample had no rock and no hill been stamped
ElevationBare(k) ==
    IF InCenterHole(StoredPoint(k)) THEN CenterHole(StoredPoint(k))
    ELSE ShapedBase(k) + drawsData[k].micro + drawsData[k].small

FeaturesAdded(k) ==
    heightData[k] - ElevationBare(k)
        = RockSum(rockPositions, StoredPoint(k))
          + HillSum(hillPositions, StoredPoint(k))

C13_SumEverywhere ==
    /\ \A k \in 1..Len(heightData) : FeaturesAdded(k)
    /\ QueryIsMaximum

\* C13 (amended): at a point outside the centre hole under several rocks and
\* hills the synthesis adds the profile of every feature over it; inside the
\* centre hole it adds none.  The analytic path of getHeightAt returns, at
\* every point, the maximum of the base elevation and the single profiles.
C13_SumOutsideHole ==
    /\ \A k \in 1..Len(heightData) :
          IF InCenterHole(StoredPoint(k))
            THEN heightData[k] = ElevationBare(k)
            ELSE FeaturesAdded(k)
    /\ QueryIsMaximum

C13_Witness ==
    /\ synthPc = "done"
    /\ queried.called /\ ~queried.hit
    /\ LET k == queried.at
           p == StoredPoint(k)
       IN  /\ ~InCenterHole(p)
           /\ RockSum(rockPositions, p) > 0
           /\ HillSum(hillPositions, p) > 0
           /\ heightData[k] - ElevationBare(k)
                = RockSum(rockPositions, p) + HillSum(hillPositions, p)
           /\ queried.value < RockSum(rockPositions, p)
                              + HillSum(hillPositions, p)

-----------------------------------------------------------------------------
ConstantElevation == surface.slopeX = 0 /\ surface.slopeZ = 0

\* C14: on a surface of one constant elevation, a Player.update whose terrain
\* interaction ran has not taken the uphill branch and its rolling step has
\* added no velocity.
C14_FlatIsIdle ==
    (ConstantElevation /\ post.ran)
        => (~post.uphill /\ post.roll = [x |-> 0, z |-> 0])

-----------------------------------------------------------------------------
StepOfThisFrame == stepCall.called /\ loopPc \in {"player", "render"}

\* C15: the elapsed time handed to world.step is never more than 1/30 s (and
\* is the measured frame delta when that is smaller), and the step runs at
\* most maxSubSteps sub-steps.
C15_ClampedStep ==
    /\ stepCall.called =>
          /\ stepCall.elapsed <= MaxDelta
          /\ stepCall.maxSub = maxSubSteps
          /\ stepCall.subSteps <= maxSubSteps
    /\ StepOfThisFrame =>
          stepCall.elapsed = (IF deltaTime > MaxDelta THEN MaxDelta
                              ELSE deltaTime)

\* a frame delta of a second or more was clamped
C15_Witness ==
    /\ StepOfThisFrame
    /\ deltaTime >= 1000 * UnitsPerMs
    /\ stepCall.elapsed = MaxDelta
    /\ stepCall.subSteps > 1

-----------------------------------------------------------------------------
-----------------------------------------------------------------------------
LibraryMissing == ~page.three \/ ~page.cannon \/ ~page.webgl
ObjectsThrow == ~LibraryMissing /\ page.throwsAt \in {"terrain", "player"}

\* C16: with the THREE or CANNON global missing or without WebGL no Game is
\* ever constructed, and when new Terrain or new Player throws in Game.init
\* the game loop is never started; in both cases startGame ends with an error
\* element in the document.
C16_NoGameOnInitError ==
    /\ LibraryMissing => ~gameObj.created /\ loopPc = "idle"
    /\ ObjectsThrow => loopPc = "idle"
    /\ (startPc = "done" /\ (LibraryMissing \/ ObjectsThrow))
          => errorElements >= 1

\* new Player threw after the terrain was built
C16_Witness ==
    /\ startPc = "done"
    /\ ObjectsThrow
    /\ gameObj.created /\ gameObj.terrain /\ ~gameObj.player
    /\ errorElements = 1
    /\ loopPc = "idle"

-----------------------------------------------------------------------------
-----------------------------------------------------------------------------
\* C18: once a charge has been started by an input handler, and so whenever
\* a marble has been created, throwPower lies between minThrowPower and
\* maxThrowPower, however long the hold lasted and however many frames ran.
C18_PowerInRange ==
    (isCharging \/ activeMarble.active \/ throwCount > 0)
        => (throwPower >= minThrowPower /\ throwPower <= maxThrowPower)

\* a marble thrown at full power after a hold longer than maxChargeTime
C18_Witness ==
    /\ activeMarble.active
    /\ activeMarble.createdAt - chargeStartTime > maxChargeTime
    /\ throwPower = maxThrowPower
    /\ lastUpdateAt > chargeStartTime

-----------------------------------------------------------------------------
\* C19: after a touchstart on the THROW button has begun a charge, no marble
\* is thrown while the finger stays on the button, and the marble has been
\* thrown once the finger is lifted.
C19_ThrownOnRelease ==
    touch.began => (touch.held <=> throwCount = touch.count)

-----------------------------------------------------------------------------
\* C21: a Player.update that added an upward nudge found the vertical
\* velocity of the marble below 0.1 in magnitude and its horizontal speed
\* above 0.5, and added at most 0.05.
C21_NudgeNearRest ==
    (post.ran /\ post.boost # 0)
        => /\ Abs(post.vy) < 100
           /\ post.horizSq > 500 * 500
           /\ post.boost <= 50

-----------------------------------------------------------------------------
\* the elevation each single rock and hill adds over a stored sample
SingleProfiles(k) ==
    { RockSum(<<rockPositions[i]>>, StoredPoint(k)) :
        i \in 1..Len(rockPositions) }
    \cup
    { HillSum(<<hillPositions[i]>>, StoredPoint(k)) :
        i \in 1..Len(hillPositions) }
    \cup {0}

-----------------------------------------------------------------------------
\* the sphere bodies of one kind in the world, in the order they were added
Spheres(kind) == SelectSeq(world.bodies, LAMBDA b : b.kind = kind)

\* the rocks of size 0.05 or more, in the order of rockPositions
LargeRocks == SelectSeq(rockPositions, LAMBDA r : r.size >= 50)

OneBodyPerLargeRock ==
    LET q == Spheres("rock")
    IN  /\ Len(q) = Len(LargeRocks)
        /\ \A i \in 1..Len(q) :
              /\ q[i].mass = 0
              /\ q[i].x = LargeRocks[i].x /\ q[i].z = LargeRocks[i].z
              /\ q[i].y = LargeRocks[i].height * 500
              /\ q[i].radius = LargeRocks[i].size * 1100

OneBodyPerHill ==
    LET q == Spheres("hill")
    IN  /\ Len(q) = Len(hillPositions)
        /\ \A i \in 1..Len(q) :
              /\ q[i].mass = 0
              /\ q[i].x = hillPositions[i].x /\ q[i].z = hillPositions[i].z
              /\ q[i].y = hillPositions[i].height * 500
              /\ q[i].radius = hillPositions[i].radius * 900

OneMeshPerLargeRock ==
    /\ Len(rockMeshes) = Len(LargeRocks)
    /\ \A i \in 1..Len(rockMeshes) :
          /\ rockMeshes[i].x = LargeRocks[i].x
          /\ rockMeshes[i].z = LargeRocks[i].z
          /\ rockMeshes[i].size = LargeRocks[i].size

TerrainConstructed == buildPc \in {"player", "done"}

\* C23: once the Terrain is constructed the world holds exactly one static
\* sphere body for each rock of size 0.05 or more, none for a smaller rock,
\* and one for each hill, and the rocks with a body are the rocks with a mesh.
C23_BodyPerFeature ==
    TerrainConstructed =>
        OneBodyPerLargeRock /\ OneBodyPerHill /\ OneMeshPerLargeRock

\* C23 (amended): once the Terrain is constructed, every rock of size 0.05 or
\* more has one mesh and no smaller rock has one.  If createPhysicsGround
\* reached addTerrainFeatures, the world holds exactly one static sphere body
\* for each rock of size 0.05 or more, none for a smaller rock, and one for
\* each hill; if new CANNON.Heightfield threw, the catch added the flat ground
\* plane only and no rock and no hill has a body.
C23_BodyPerFeatureUnlessFallback ==
    TerrainConstructed =>
        /\ OneMeshPerLargeRock
        /\ IF heightfieldThrew
             THEN Spheres("rock") = <<>> /\ Spheres("hill") = <<>>
             ELSE OneBodyPerLargeRock /\ OneBodyPerHill

C23_Witness ==
    /\ buildPc = "done"
    /\ ~heightfieldThrew
    /\ Len(rockPositions) = 2
    /\ Len(LargeRocks) = 1
    /\ Len(Spheres("rock")) = 1
    /\ Len(rockMeshes) = 1
    /\ Len(Spheres("hill")) = 2

-----------------------------------------------------------------------------
\* C24: every Player.update reads the fields of activeMarble only while it is
\* non-null, so that no update, the one that removes the marble included,
\* ends in its catch.
C24_UpdateCompletes == ~updateThrew

-----------------------------------------------------------------------------
\* C25: under every interleaving of key events, touches of the throw button,
\* its timers and frames, isCharging and a non-null activeMarble never hold
\* together, and the physics world never holds more than one marble body.
C25_OneMarbleInFlight ==
    /\ ~(isCharging /\ activeMarble.active)
    /\ marbleBodies <= 1

\* a marble thrown by the key is in flight while a timer of the throw button
\* is still pending, after an earlier throw
C25_Witness ==
    /\ activeMarble.active
    /\ marbleBodies = 1
    /\ timers # <<>>
    /\ throwCount >= 2

-----------------------------------------------------------------------------
\* C26: once gameLoop has started, every invocation has requested the next
\* animation frame, also in a frame in which world.step, Player.update or the
\* render call threw: one invocation is always due, and whenever gameLoop has
\* returned the next frame can run.
C26_NextFrameScheduled ==
    /\ pending = 1
    /\ loopPc = "raf" => ENABLED AnimationFrame

\* a whole frame that stepped, updated and rendered after a frame whose
\* world.step threw, and a Player.update that ended in its catch
C26_Witness ==
    /\ thrown = "step"
    /\ updateThrew
    /\ frameLog = <<"step", "player", "render">>
    /\ loopPc = "raf"
    /\ pending = 1

-----------------------------------------------------------------------------
\* the marble was removed by this step
Removed == activeMarble.active /\ ~activeMarble'.active

\* C27: totalScore changes only in a Player.update that removes the marble
\* because it stopped or timed out, and then grows by the ring points of the
\* marble's horizontal distance from the centre plus 5 for each obstacle
\* collision the collide handler counted for that marble; a removal for
\* falling below y = -0.5 or going farther than 5 from the origin leaves it
\* unchanged, and it never decreases.
C27_ScoreOnStop ==
    [][ /\ totalScore' >= totalScore
        /\ totalScore' # totalScore
             => Removed /\ lastRemoval' \in {"stopped", "timeout"}
        /\ (Removed /\ lastRemoval' = "out") => totalScore' = totalScore
        /\ (Removed /\ lastRemoval' \in {"stopped", "timeout"})
             => totalScore' = totalScore + RingPoints(marbleBody'.horiz)
                              + 5 * (activeMarble.userCollisions
                                     + marbleBody'.hits)
      ]_vars

-----------------------------------------------------------------------------
\* this.hillCount of the constructor
DefaultHillCount == 6

\* the coordinates Math.random() * size - size / 2 can give, on a grid of
\* 0.1, that a point 1.3 circleRadius or more from the centre can have
GridCoords ==
    { v \in { k * 100 - size \div 2 : k \in 0..((size \div 100) - 1) } :
        v * v + (size \div 2) * (size \div 2)
            >= ((circleRadius * 13) \div 10) * ((circleRadius * 13) \div 10) }
HillGrid == { c \in [x : GridCoords, z : GridCoords] :
                ~HillRejectedBy(c, <<>>, <<>>) }

\* a is before b, in the order of x and then z
Before(a, b) == a.x < b.x \/ (a.x = b.x /\ a.z < b.z)

\* n more hills of grid can be accepted one after the other, none after a
\* give-up; the test being symmetric, they are taken in the order Before
RECURSIVE HillsFitIn(_, _, _, _)
HillsFitIn(n, rocks, hills, grid) ==
    \/ n = 0
    \/ \E c \in grid :
          /\ hills # <<>> => Before(hills[Len(hills)], c)
          /\ ~HillRejectedBy(c, rocks, hills)
          /\ HillsFitIn(n - 1, rocks, Append(hills, c), grid)

HillsFit(n, rocks, hills) == HillsFitIn(n, rocks, hills, HillGrid)

\* C28: with the default parameters (size 5, circleRadius 2.5, 6 hills) the
\* hill loop of generateObstaclePositions can accept all its hills without
\* exhausting the retries of any of them, whatever rocks were pushed before.
C28_DefaultsFit ==
    placePc = "rocks" => HillsFit(DefaultHillCount, rockPositions, <<>>)

-----------------------------------------------------------------------------
\* C29: after every FlightControls.update the condor is at least 6 above the
\* terrain height at its (x, z), the elevation reported is at least 6, and
\* verticalSpeed is 0 after an update that applied the floor.
C29_AboveTerrain ==
    flown.updates > 0 =>
        /\ condor.y >= getHeightAtPosition(terrainMap, condor.x, condor.z)
                       + MinClearance
        /\ flown.terrainHeight
             = getHeightAtPosition(terrainMap, condor.x, condor.z)
        /\ flown.elevation >= MinClearance
        /\ flown.floored =>
              /\ flightState.verticalSpeed = 0
              /\ flown.elevation = MinClearance

\* the condor descends with s held and an update applies the floor
C29_Witness ==
    /\ flown.updates > 1
    /\ "s" \in keys
    /\ flown.floored
    /\ flightState.verticalSpeed = 0
    /\ condor.pitch # 0

-----------------------------------------------------------------------------
\* C30: the button label reads 'Free Camera: ON' exactly when
\* CameraController.state.freeCamera is true, and once the condor and the
\* controller exist OrbitControls is enabled exactly when freeCamera is true.
C30_LabelMatchesMode ==
    /\ (buttonLabel = "Free Camera: ON") <=> camera.freeCamera
    /\ camera.created => (camera.enabled <=> camera.freeCamera)

=============================================================================
